---- MODULE Spec2Model ----
(***************************************************************************)
(* Model of the FlowForge status line data pipeline:                       *)
(*   StatusLineCache      (.flowforge/bin/statusline_cache.py)             *)
(*   StatusLineDataLoader (.flowforge/bin/statusline_data_loader.py)       *)
(* Time is the value of time.time() * 1000, in milliseconds.               *)
(***************************************************************************)
EXTENDS Integers, Sequences, FiniteSets, TLC

\* ---------------------------------------------------------------- bounds
MaxTime == 2
MaxTTL == 1
MaxCalls == 3
MaxInstances == 1
MaxResolves == 2

\* ---------------------------------------------------------------- values
Issues == {"42"}
Callers == {"c1", "c2"}
Workers == {"w1", "w2"}
NoThread == "none"

\* Python values held by the cache: a tag and a payload.
PyNone == [py |-> "none", v |-> <<>>]
PyBool(b) == [py |-> "bool", v |-> <<IF b THEN "True" ELSE "False">>]
PyTuple(r) == [py |-> "tuple", v |-> r]
PyList(r) == [py |-> "list", v |-> r]
\* An exception that escapes the call, by class name.
PyRaise(e) == [py |-> "raise", v |-> <<e>>]
Raised(rv) == rv.py = "raise"
PyStr(x) == [py |-> "str", v |-> <<x>>]

\* json.dump writes a tuple as an array; json.load reads an array as a list.
JsonRoundTrip(d) == IF d.py = "tuple" THEN PyList(d.v) ELSE d

\* The record returned when there is no milestone data.
EMPTY == <<"", 0, 0, "0m">>

\* Results get_milestone_eta_from_github can return: a milestone record, or
\* the empty record when the milestone query fails.
RemoteRecords == {<<"m1", 1, 2, "0m">>, <<"m2", 2, 2, "0m">>}
RemoteOutcomes ==
    {[failed |-> FALSE, rec |-> r] : r \in RemoteRecords}
    \cup {[failed |-> TRUE, rec |-> EMPTY]}

CacheKey(i) == "github_issue_" \o i
GhAuthKey == "gh_auth_status"
Keys == {CacheKey(i) : i \in Issues} \cup {GhAuthKey}

\* ---------------------------------------------------------------- dicts
EmptyDict == <<>>
DictSet(d, k, e) == [x \in (DOMAIN d) \cup {k} |-> IF x = k THEN e ELSE d[x]]
DictDel(d, k) == [x \in (DOMAIN d) \ {k} |-> d[x]]

\* ---------------------------------------------------------------- cache
CacheEntry(ts, d) == [timestamp |-> ts, data |-> d]

IsExpired(entry, ttl, t) == (t - entry.timestamp) > ttl

\* The cache file: missing, a JSON object of entries, or not valid JSON
\* ("invalid"; "empty" and "partial" are the file while it is being rewritten).
\* "nonobject" is valid JSON that is not an object (an array, a number),
\* "unreadable" a file that open() refuses with PermissionError, and "nodir"
\* a path whose directory is missing and cannot be created.
DiskFile(kind, entries) == [kind |-> kind, entries |-> entries]
DiskMissing == DiskFile("missing", EmptyDict)
DiskInvalid == DiskFile("invalid", EmptyDict)
DiskNonObject == DiskFile("nonobject", EmptyDict)
DiskUnreadable == DiskFile("unreadable", EmptyDict)
DiskNoDir == DiskFile("nodir", EmptyDict)

\* An entry of the cache file is a JSON object, modelled as a record of its
\* fields, or another JSON value, modelled as a tagged value. timestamp_type
\* is present when the JSON timestamp is not a number (here a string).
\* `isinstance(entry_data, dict) and 'timestamp' in entry_data and 'data' in entry_data`
HasEntryShape(e) ==
    /\ "py" \notin DOMAIN e
    /\ "timestamp" \in DOMAIN e
    /\ "data" \in DOMAIN e
\* `time.time() * 1000 - self.timestamp` raises TypeError on such a timestamp.
BadTimestamp(e) == HasEntryShape(e) /\ "timestamp_type" \in DOMAIN e

\* json.load keeps the order of the keys in the file, and the loop of
\* _load_from_disk follows it. The files considered list their keys in this
\* order.
FileKeyOrder == <<"github_issue_42", "gh_auth_status", "k_list", "k_nots",
                  "k_nodata", "k_extra", "k_badts", "k_after">>
KeyRank(k) == IF \E i \in DOMAIN FileKeyOrder : FileKeyOrder[i] = k
              THEN CHOOSE i \in DOMAIN FileKeyOrder : FileKeyOrder[i] = k
              ELSE 0

\* The exception that escapes _load_from_disk ("" when none does): only
\* JSONDecodeError, IOError and KeyError are caught.
LoadRaises(cs, ttl, t) ==
    IF cs.disk.kind = "nonobject" THEN "AttributeError"
    ELSE IF /\ cs.disk.kind = "object"
            /\ \E k \in DOMAIN cs.disk.entries : BadTimestamp(cs.disk.entries[k])
    THEN "TypeError"
    ELSE ""

\* cs is the state of one StatusLineCache and its file:
\*   [mem, loaded, disk, checked, avail]
LoadFromDisk(cs, ttl, t) ==
    IF cs.disk.kind \in {"missing", "nodir", "nonobject"} THEN cs
    ELSE IF cs.disk.kind = "object"
    THEN LET e == cs.disk.entries
             bad == {k \in DOMAIN e : BadTimestamp(e[k])}
             \* the keys the loop reaches before an exception ends it
             reached == {k \in DOMAIN e :
                            \A b \in bad : KeyRank(k) < KeyRank(b)}
             live == {k \in reached : /\ HasEntryShape(e[k])
                                       /\ ~IsExpired(e[k], ttl, t)}
         IN [cs EXCEPT !.mem = [k \in (DOMAIN cs.mem) \cup live |->
                                   IF k \in live
                                   THEN CacheEntry(e[k].timestamp, e[k].data)
                                   ELSE cs.mem[k]]]
    ELSE [cs EXCEPT !.mem = EmptyDict]

SaveToDisk(cs, ttl, t) ==
    LET live == {k \in DOMAIN cs.mem : ~IsExpired(cs.mem[k], ttl, t)}
    IN IF cs.disk.kind \in {"unreadable", "nodir"}
       THEN cs     \* mkdir or open raises an OSError: `except IOError: pass`
       ELSE [cs EXCEPT !.disk = DiskFile("object",
               [k \in live |-> CacheEntry(cs.mem[k].timestamp,
                                          JsonRoundTrip(cs.mem[k].data))])]

\* get as it would be if it served an expired entry instead of evicting it.
GetServingExpired(cs, key, ttl, t) ==
    LET c1 == IF cs.loaded THEN cs
              ELSE [LoadFromDisk(cs, ttl, t) EXCEPT !.loaded = TRUE]
    IN IF key \in DOMAIN c1.mem
       THEN [cs |-> c1, rv |-> c1.mem[key].data]
       ELSE [cs |-> c1, rv |-> PyNone]

\* get: returns [cs |-> new state, rv |-> value or PyNone]
Get(cs, key, ttl, t) ==
    LET c1 == IF cs.loaded THEN cs
              ELSE [LoadFromDisk(cs, ttl, t) EXCEPT !.loaded = TRUE]
    IN IF ~cs.loaded /\ LoadRaises(cs, ttl, t) # ""
       THEN \* the exception leaves get before `_disk_loaded = True`
            [cs |-> LoadFromDisk(cs, ttl, t), rv |-> PyRaise(LoadRaises(cs, ttl, t))]
       ELSE
       IF key \in DOMAIN c1.mem
       THEN IF ~IsExpired(c1.mem[key], ttl, t)
            THEN [cs |-> c1, rv |-> c1.mem[key].data]
            ELSE [cs |-> [c1 EXCEPT !.mem = DictDel(c1.mem, key)], rv |-> PyNone]
       ELSE [cs |-> c1, rv |-> PyNone]

Set(cs, key, value, save, ttl, t) ==
    LET c1 == [cs EXCEPT !.mem = DictSet(cs.mem, key, CacheEntry(t, value))]
    IN IF save THEN SaveToDisk(c1, ttl, t) ELSE c1

\* clear_expired
ClearExpired(cs, ttl, t) ==
    LET expired_keys == {k \in DOMAIN cs.mem : IsExpired(cs.mem[k], ttl, t)}
    IN [cs EXCEPT !.mem = [k \in (DOMAIN cs.mem) \ expired_keys |-> cs.mem[k]]]

\* is_gh_available: installed is the outcome of running `gh --version`.
IsGhAvailable(cs, installed, ttl, t) ==
    IF cs.checked THEN [cs |-> cs, rv |-> cs.avail]
    ELSE LET g == Get(cs, GhAuthKey, ttl, t)
         IN IF g.rv # PyNone
            THEN [cs |-> [g.cs EXCEPT !.avail = (g.rv = PyBool(TRUE)), !.checked = TRUE],
                  rv |-> (g.rv = PyBool(TRUE))]
            ELSE [cs |-> [Set(g.cs, GhAuthKey, PyBool(installed), TRUE, ttl, t)
                            EXCEPT !.avail = installed, !.checked = TRUE],
                  rv |-> installed]

\* ---------------------------------------------------------------- state
VARIABLES
    now,                 \* time.time() * 1000
    ttl_ms,              \* StatusLineCache.ttl_ms
    memory_cache,        \* StatusLineCache._memory_cache
    disk_loaded,         \* StatusLineCache._disk_loaded
    disk,                \* the cache file
    gh_auth_checked,     \* StatusLineCache._gh_auth_checked
    gh_available,        \* StatusLineCache._gh_available
    gh_installed,        \* environment: does `gh --version` succeed
    github_data,         \* StatusLineDataLoader._github_data
    github_fetch_thread, \* StatusLineDataLoader._github_fetch_thread
    caller,              \* threads calling into the data loader
    worker,              \* background fetch threads
    calls,               \* number of calls started
    last,                \* history: the call that returned most recently
    remoteLog,           \* history: kinds of thread that ran a remote gh command
    fetchedAt,           \* history: when the record in _github_data was fetched
    lastWrite,           \* history: the latest record fetch() wrote to the cache
    cthread,             \* threads calling StatusLineCache methods
    reader,              \* what another process last read from the cache file
    got,                 \* history: the get that returned most recently
    lastSet,             \* history: the latest set of each key
    setTs,              \* history: latest timestamp taken by a set of each key
    flush,               \* history: the entries _save_to_disk wrote to the file
    local_files,         \* environment: .flowforge/{tasks,session,milestones}.json
    branch,              \* environment: the branch git reports
    gh_cache,            \* the file .github-cache.json of GitHubCache
    resolved,            \* history: the progress record resolved most recently
    context_usage,       \* history: the latest call into ContextUsageCalculator
    milestone_eta,       \* history: the latest get_milestone_eta_from_github call
    gh_thread,           \* threads calling GitHubCache methods
    gh_log,              \* history: writes and reads of GitHubCache keys
    long_term            \* history: the latest set_long_term / get_long_term

vars == <<now, ttl_ms, memory_cache, disk_loaded, disk, gh_auth_checked,
          gh_available, gh_installed, github_data, github_fetch_thread,
          caller, worker, calls, last, remoteLog, fetchedAt, lastWrite,
          cthread, reader, got, lastSet, setTs, flush,
          local_files, branch, gh_cache, resolved, context_usage,
          milestone_eta, gh_thread, gh_log, long_term>>

cacheVars == <<memory_cache, disk_loaded, disk, gh_auth_checked, gh_available>>
envVars == <<ttl_ms, gh_installed, local_files, branch>>
resVars == <<gh_cache, resolved>>
calcVars == <<context_usage, milestone_eta>>
ghVars == <<gh_thread, gh_log>>
loaderVars == <<github_data, github_fetch_thread, caller, worker, calls, last,
                remoteLog, fetchedAt, lastWrite>>
apiVars == <<cthread, reader, got, lastSet, setTs, flush>>

CS == [mem |-> memory_cache, loaded |-> disk_loaded, disk |-> disk,
       checked |-> gh_auth_checked, avail |-> gh_available]

SetCS(cs) ==
    /\ memory_cache' = cs.mem
    /\ disk_loaded' = cs.loaded
    /\ disk' = cs.disk
    /\ gh_auth_checked' = cs.checked
    /\ gh_available' = cs.avail

\* Cache files left behind by an earlier run, written at time 0.
OldRecord == <<"m0", 0, 1, "0m">>
DiskInits ==
    {DiskMissing, DiskInvalid}
    \cup {DiskFile("object", [k \in {CacheKey(i)} |->
             CacheEntry(0, PyList(OldRecord))]) : i \in Issues}

CThreads == {"t1", "t2"}
IdleThread == [pc |-> "idle", key |-> "", val |-> PyNone, save |-> FALSE,
               ts |-> 0, size |-> 0, snap |-> EmptyDict, exc |-> ""]
NoGet == [key |-> "", rv |-> PyNone, time |-> 0, first |-> FALSE]
NoFlush == [done |-> FALSE, cur |-> EmptyDict, prev |-> EmptyDict, instances |-> 0]

NoWrite == [rec |-> EMPTY, wtime |-> -1]
IdleCaller == [pc |-> "idle", op |-> "", issue |-> "", wait |-> FALSE,
               seen |-> NoWrite, stale |-> PyNone]
DeadWorker == [pc |-> "dead", issue |-> "", result |-> EMPTY]
NoCall == [issue |-> "", ret |-> PyNone, src |-> "", seen |-> NoWrite,
           fresh |-> TRUE, failed |-> FALSE, stale |-> PyNone,
           triggered |-> FALSE]

GhThreads == {"g1", "g2", "g3"}
IdleGhThread == [pc |-> "idle", op |-> "", issue |-> "", rec |-> EMPTY, ttl |-> 0,
                 ts |-> 0, data |-> EmptyDict, seen |-> 0]
NoGhGet == [issue |-> "", rv |-> PyNone, time |-> 0, seen |-> 0, latest |-> 0]
NoGhLog == [calls |-> 0, writes |-> 0, sets |-> EmptyDict, get |-> NoGhGet,
            deleted |-> FALSE]
NoLongTerm == [key |-> "", entry |-> CacheEntry(0, PyNone), gkey |-> "",
               minutes |-> 0, rv |-> PyNone, time |-> 0, first |-> TRUE]

InitCommon(files) ==
    /\ now = 0
    /\ ttl_ms \in 1..MaxTTL
    /\ memory_cache = EmptyDict
    /\ disk_loaded = FALSE
    /\ disk \in files
    /\ gh_auth_checked = FALSE
    /\ gh_available = FALSE
    /\ gh_installed \in BOOLEAN
    /\ github_data = EmptyDict
    /\ github_fetch_thread = NoThread
    /\ caller = [c \in Callers |-> IdleCaller]
    /\ worker = [w \in Workers |-> DeadWorker]
    /\ calls = 0
    /\ last = NoCall
    /\ remoteLog = {}
    /\ fetchedAt = EmptyDict
    /\ lastWrite = EmptyDict
    /\ cthread = [t \in CThreads |-> IdleThread]
    /\ reader = "none"
    /\ got = NoGet
    /\ lastSet = EmptyDict
    /\ setTs = EmptyDict
    /\ flush = NoFlush
    /\ context_usage = [op |-> "none"]
    /\ milestone_eta = [op |-> "none"]
    /\ gh_thread = [g \in GhThreads |-> IdleGhThread]
    /\ gh_log = NoGhLog
    /\ long_term = NoLongTerm

\* The resolvers at rest, in a project without local progress files.
NoLocalFiles == [f \in {"tasks", "session", "milestones"} |->
                   [kind |-> "missing", top |-> "dict", ms |-> "absent", name |-> "",
                    completed |-> 0, total |-> 0, timeRemaining |-> "0m"]]
NoResolved == [op |-> "none", exc |-> "", caught |-> "", rec |-> <<"", 0, 0, "0m">>,
               tier |-> <<"default", "default", "default", "default">>,
               gh |-> "not_called", from |-> "", issue |-> "", prefer_local |-> FALSE,
               time |-> 0, prev |-> [op |-> "none", rec |-> <<"", 0, 0, "0m">>, time |-> 0]]

InitWith(files) ==
    /\ InitCommon(files)
    /\ local_files = NoLocalFiles
    /\ branch = "main"
    /\ gh_cache = [kind |-> "missing", entries |-> <<>>]
    /\ resolved = NoResolved

\* The data loader starts with no cache file or with one of an earlier run.
Init == InitWith(DiskInits \ {DiskInvalid})

\* The expired record the cache holds for a key, if any (PyNone otherwise).
StaleData(cs, key, ttl, t) ==
    LET c1 == IF cs.loaded THEN cs ELSE LoadFromDisk(cs, ttl, t)
    IN IF key \in DOMAIN c1.mem /\ IsExpired(c1.mem[key], ttl, t)
       THEN c1.mem[key].data ELSE PyNone

\* The latest record that fetch() wrote to the cache for issue i.
LatestWrite(i) == IF i \in DOMAIN lastWrite THEN lastWrite[i] ELSE NoWrite

\* The call of thread c returns value; source names the statement returning.
\* fetch_github_data_background returns nothing to a direct caller.
Return(c, me, value, source, from, triggered) ==
    /\ caller' = [caller EXCEPT ![c] = IdleCaller]
    /\ last' = IF me.op = "fetch" THEN last
               ELSE [issue |-> me.issue, ret |-> value, src |-> source,
                     seen |-> me.seen,
                     fresh |-> (now - from.time <= ttl_ms),
                     failed |-> from.failed,
                     stale |-> me.stale, triggered |-> triggered]

Fetched(t, failed) == [time |-> t, failed |-> failed]

\* get_milestone_from_github, up to the choice between the synchronous fetch
\* and the background fetch.
GetMilestoneFromGithub(c, i, w) ==
    /\ UNCHANGED apiVars
    /\ caller[c].pc = "idle"
    /\ calls < MaxCalls
    /\ calls' = calls + 1
    /\ LET me == [IdleCaller EXCEPT !.op = "get", !.issue = i, !.wait = w,
                                    !.seen = LatestWrite(i)]
       IN IF i \in DOMAIN github_data
          THEN /\ Return(c, me, github_data[i], "github_data",
                         fetchedAt[i], FALSE)
               /\ UNCHANGED cacheVars
          ELSE LET key == CacheKey(i)
                   g == Get(CS, key, ttl_ms, now)
                   st == StaleData(CS, key, ttl_ms, now)
                   a == IsGhAvailable(g.cs, gh_installed, ttl_ms, now)
               IN IF g.rv # PyNone
                  THEN /\ Return(c, [me EXCEPT !.stale = st], g.rv, "cache",
                                 Fetched(g.cs.mem[key].timestamp, FALSE), FALSE)
                       /\ SetCS(g.cs)
                  ELSE IF w
                  THEN /\ caller' = [caller EXCEPT ![c] =
                             [me EXCEPT !.stale = st,
                                 !.pc = IF a.rv THEN "sync_fetch" ELSE "bg_check"]]
                       /\ SetCS(a.cs)
                       /\ UNCHANGED last
                  ELSE /\ caller' = [caller EXCEPT ![c] =
                             [me EXCEPT !.stale = st, !.pc = "bg_check"]]
                       /\ SetCS(g.cs)
                       /\ UNCHANGED last
    /\ UNCHANGED <<now, envVars, calcVars, ghVars, long_term, resVars, github_data, github_fetch_thread,
                   worker, remoteLog, fetchedAt, lastWrite>>

\* generate_status_line / _build_formatting_context call with the default
\* wait_for_fetch=True.
GenerateStatusLine(c, i) == GetMilestoneFromGithub(c, i, TRUE)

\* A call with wait_for_fetch=False.
GetMilestoneNoWait(c, i) == GetMilestoneFromGithub(c, i, FALSE)

\* The synchronous branch: get_milestone_eta_from_github on the calling thread.
SyncFetch(c) ==
    /\ UNCHANGED <<apiVars, calls>>
    /\ caller[c].pc = "sync_fetch"
    /\ \E r \in RemoteOutcomes :
          Return(c, caller[c], PyTuple(r.rec), "sync", Fetched(now, r.failed), FALSE)
    /\ remoteLog' = remoteLog \cup {"caller"}
    /\ UNCHANGED <<now, envVars, calcVars, ghVars, long_term, resVars, cacheVars, github_data,
                   github_fetch_thread, worker, fetchedAt, lastWrite>>

\* fetch_github_data_background called directly.
FetchGithubDataBackground(c, i) ==
    /\ UNCHANGED apiVars
    /\ caller[c].pc = "idle"
    /\ calls < MaxCalls
    /\ calls' = calls + 1
    /\ caller' = [caller EXCEPT ![c] =
          [IdleCaller EXCEPT !.op = "fetch", !.issue = i, !.pc = "bg_check",
                             !.seen = LatestWrite(i)]]
    /\ UNCHANGED <<now, envVars, calcVars, ghVars, long_term, resVars, cacheVars, github_data, last,
                   github_fetch_thread, worker, remoteLog, fetchedAt, lastWrite>>

\* Thread objects that are not running; a new thread is one of them.
FreeWorkers == {w \in Workers : worker[w].pc = "dead"}

ThreadAlive(w) == w # NoThread /\ worker[w].pc # "dead"

\* `if self._github_fetch_thread is None or not ...is_alive()`
CheckFetchThread(c) ==
    /\ UNCHANGED <<apiVars, calls>>
    /\ caller[c].pc = "bg_check"
    /\ IF ~ThreadAlive(github_fetch_thread)
       THEN /\ caller' = [caller EXCEPT ![c].pc = "bg_start"]
            /\ UNCHANGED last
       ELSE Return(c, caller[c], PyTuple(EMPTY), "default", Fetched(now, FALSE), FALSE)
    /\ UNCHANGED <<now, envVars, calcVars, ghVars, long_term, resVars, cacheVars, github_data,
                   github_fetch_thread, worker, remoteLog, fetchedAt,
                   lastWrite>>

\* `self._github_fetch_thread = threading.Thread(...); ....start()`
StartFetchThread(c) ==
    /\ UNCHANGED <<apiVars, calls>>
    /\ caller[c].pc = "bg_start"
    /\ FreeWorkers # {}
    /\ LET w == CHOOSE x \in FreeWorkers : TRUE
       IN /\ worker' = [worker EXCEPT ![w] =
                [DeadWorker EXCEPT !.pc = "f_begin", !.issue = caller[c].issue]]
          /\ github_fetch_thread' = w
    /\ Return(c, caller[c], PyTuple(EMPTY), "default", Fetched(now, FALSE), TRUE)
    /\ UNCHANGED <<now, envVars, calcVars, ghVars, long_term, resVars, cacheVars, github_data,
                   remoteLog, fetchedAt, lastWrite>>

\* fetch(): the gh availability check and the cache check.
FetchBegin(w) ==
    /\ UNCHANGED <<apiVars, calls>>
    /\ worker[w].pc = "f_begin"
    /\ LET a == IsGhAvailable(CS, gh_installed, ttl_ms, now)
           g == Get(a.cs, CacheKey(worker[w].issue), ttl_ms, now)
       IN IF ~a.rv
          THEN /\ SetCS(a.cs)
               /\ worker' = [worker EXCEPT ![w] = DeadWorker]
          ELSE /\ SetCS(g.cs)
               /\ worker' = [worker EXCEPT ![w] =
                     IF g.rv # PyNone THEN DeadWorker
                     ELSE [worker[w] EXCEPT !.pc = "f_remote"]]
    /\ UNCHANGED <<now, envVars, calcVars, ghVars, long_term, resVars, github_data, github_fetch_thread,
                   caller, last, remoteLog, fetchedAt, lastWrite>>

\* A fetch thread that never gets past its gh command.
FetchRemoteHanging(w) ==
    /\ worker[w].pc = "f_remote"
    /\ UNCHANGED vars

\* fetch(): get_milestone_eta_from_github, then the store into _github_data
\* under _github_data_lock.
FetchRemote(w) ==
    /\ UNCHANGED <<apiVars, calls>>
    /\ worker[w].pc = "f_remote"
    /\ \E r \in RemoteOutcomes :
          /\ worker' = [worker EXCEPT ![w] =
                [worker[w] EXCEPT !.pc = "f_cache", !.result = r.rec]]
          /\ github_data' = DictSet(github_data, worker[w].issue, PyTuple(r.rec))
          /\ fetchedAt' = DictSet(fetchedAt, worker[w].issue, Fetched(now, r.failed))
    /\ remoteLog' = remoteLog \cup {"worker"}
    /\ UNCHANGED <<now, envVars, calcVars, ghVars, long_term, resVars, cacheVars, github_fetch_thread,
                   caller, last, lastWrite>>

\* fetch(): self.cache.set(cache_key, result); the thread then ends.
FetchCacheSet(w) ==
    /\ UNCHANGED <<apiVars, calls>>
    /\ worker[w].pc = "f_cache"
    /\ SetCS(Set(CS, CacheKey(worker[w].issue), PyTuple(worker[w].result),
                 TRUE, ttl_ms, now))
    /\ lastWrite' = DictSet(lastWrite, worker[w].issue,
                            [rec |-> worker[w].result, wtime |-> now])
    /\ worker' = [worker EXCEPT ![w] = DeadWorker]
    /\ UNCHANGED <<now, envVars, calcVars, ghVars, long_term, resVars, github_data, github_fetch_thread,
                   caller, last, remoteLog, fetchedAt>>

Tick ==
    /\ now < MaxTime
    /\ now' = now + 1
    /\ UNCHANGED <<envVars, calcVars, ghVars, long_term, resVars, cacheVars, loaderVars, apiVars>>

Next ==
    \/ \E c \in Callers, i \in Issues : GenerateStatusLine(c, i)
    \/ \E c \in Callers, i \in Issues : GetMilestoneNoWait(c, i)
    \/ \E c \in Callers, i \in Issues : FetchGithubDataBackground(c, i)
    \/ \E c \in Callers : SyncFetch(c)
    \/ \E c \in Callers : CheckFetchThread(c)
    \/ \E c \in Callers : StartFetchThread(c)
    \/ \E w \in Workers : FetchBegin(w)
    \/ \E w \in Workers : FetchRemote(w)
    \/ \E w \in Workers : FetchCacheSet(w)
    \/ Tick

Spec == Init /\ [][Next]_vars

\* ------------------------------------------- StatusLineCache, one thread
\* Cache files with entries of other shapes than {timestamp, data}, written
\* at time 0: the keys are in the order of FileKeyOrder.
DiskShapes ==
    DiskFile("object",
        [k \in {"github_issue_42", "k_list", "k_nots", "k_nodata", "k_extra"} |->
            IF k = "k_list" THEN PyList(<<>>)
            ELSE IF k = "k_nots" THEN [data |-> PyList(OldRecord)]
            ELSE IF k = "k_nodata" THEN [timestamp |-> 0]
            ELSE IF k = "k_extra"
            THEN [timestamp |-> 0, data |-> PyList(OldRecord), ttl_minutes |-> 5]
            ELSE CacheEntry(0, PyList(OldRecord))])
DiskBadTimestamp ==
    DiskFile("object",
        [k \in {"github_issue_42", "k_badts", "k_after"} |->
            IF k = "k_badts"
            THEN [timestamp |-> 0, data |-> PyList(OldRecord), timestamp_type |-> "str"]
            ELSE CacheEntry(0, PyList(OldRecord))])
DiskFaults == {DiskNonObject, DiskUnreadable, DiskNoDir, DiskShapes, DiskBadTimestamp}

\* The cache on its own: gh is not involved.
InitCache == InitWith(DiskInits \cup DiskFaults) /\ gh_installed = FALSE

CacheValues == {PyTuple(<<"m1", 1, 2, "0m">>)}

\* What a flush at time t writes: the unexpired entries of memory.
Flushed(mem, ttl, t) ==
    [k \in {x \in DOMAIN mem : ~IsExpired(mem[x], ttl, t)} |-> mem[k]]
\* The history of a call of _save_to_disk (it writes unless the disk refuses).
NoteFlush(cs) ==
    IF cs.disk.kind \in {"unreadable", "nodir"} THEN flush
    ELSE [flush EXCEPT !.done = TRUE, !.cur = Flushed(cs.mem, ttl_ms, now)]

CacheGet(k) ==
    /\ LET g == Get(CS, k, ttl_ms, now)
       IN /\ SetCS(g.cs)
          /\ got' = [key |-> k, rv |-> g.rv, time |-> now, first |-> ~disk_loaded]
    /\ UNCHANGED <<now, envVars, calcVars, ghVars, long_term, resVars, loaderVars, cthread, reader, lastSet, setTs, flush>>

CacheSet(k, v, save) ==
    /\ LET c1 == Set(CS, k, v, save, ttl_ms, now)
       IN /\ SetCS(c1)
          /\ flush' = IF save THEN NoteFlush(c1) ELSE flush
    /\ lastSet' = DictSet(lastSet, k, CacheEntry(now, v))
    /\ got' = NoGet
    /\ UNCHANGED <<now, envVars, calcVars, ghVars, long_term, resVars, loaderVars, cthread, reader, setTs>>

CacheSaveToDisk ==
    /\ SetCS(SaveToDisk(CS, ttl_ms, now))
    /\ flush' = NoteFlush(CS)
    /\ UNCHANGED <<now, envVars, calcVars, ghVars, long_term, resVars, loaderVars, cthread, reader, got, lastSet, setTs>>

CacheClearExpired ==
    /\ SetCS(ClearExpired(CS, ttl_ms, now))
    /\ UNCHANGED <<now, envVars, calcVars, ghVars, long_term, resVars, loaderVars, apiVars>>

\* A new StatusLineCache on the same file (the next run of the program).
NewInstance ==
    /\ flush.instances < MaxInstances
    /\ memory_cache' = EmptyDict
    /\ disk_loaded' = FALSE
    /\ gh_auth_checked' = FALSE
    /\ gh_available' = FALSE
    /\ got' = NoGet
    /\ lastSet' = EmptyDict
    /\ flush' = [done |-> FALSE, cur |-> EmptyDict,
                 prev |-> IF flush.done THEN flush.cur ELSE flush.prev,
                 instances |-> flush.instances + 1]
    /\ UNCHANGED <<now, envVars, calcVars, ghVars, long_term, resVars, disk, loaderVars, cthread, reader, setTs>>

NextCacheSeq ==
    \/ \E k \in Keys : CacheGet(k)
    \/ \E k \in Keys, v \in CacheValues, save \in BOOLEAN : CacheSet(k, v, save)
    \/ CacheSaveToDisk
    \/ CacheClearExpired
    \/ NewInstance
    \/ Tick

SpecCacheSeq == InitCache /\ [][NextCacheSeq]_vars

\* ---------------------------------- StatusLineCache, concurrent threads
\* Each method is a sequence of steps between which another thread may run.
Max(a, b) == IF a >= b THEN a ELSE b

Enter(t, pc, k) == [IdleThread EXCEPT !.pc = pc, !.key = k]
Raise(t, e) == [IdleThread EXCEPT !.pc = "failed", !.exc = e]

\* The keys the threads share.
SharedKeys == {CacheKey(i) : i \in Issues}

\* The value thread t stores.
ValueOf(t) == IF t = "t1" THEN PyTuple(<<"m1", 1, 2, "0m">>)
              ELSE PyTuple(<<"m2", 2, 2, "0m">>)

\* get: `if not self._disk_loaded`
TGetCall(t, k) ==
    /\ cthread[t].pc = "idle"
    /\ cthread' = [cthread EXCEPT ![t] =
          Enter(t, IF disk_loaded THEN "get_in" ELSE "get_load", k)]
    /\ UNCHANGED <<now, envVars, calcVars, ghVars, long_term, resVars, cacheVars, loaderVars, reader, got, lastSet, setTs, flush>>

\* get: `self._load_from_disk(); self._disk_loaded = True`
TGetLoad(t) ==
    /\ cthread[t].pc = "get_load"
    /\ LET c1 == LoadFromDisk(CS, ttl_ms, now)
       IN /\ SetCS([c1 EXCEPT !.loaded = TRUE])
          /\ setTs' = [k \in {x \in DOMAIN setTs : x \in DOMAIN c1.mem
                                   /\ c1.mem[x] = memory_cache[x]} |-> setTs[k]]
    /\ cthread' = [cthread EXCEPT ![t].pc = "get_in"]
    /\ UNCHANGED <<now, envVars, calcVars, ghVars, long_term, resVars, loaderVars, reader, got, lastSet, flush>>

\* get: `if key in self._memory_cache`
TGetIn(t) ==
    /\ cthread[t].pc = "get_in"
    /\ cthread' = [cthread EXCEPT ![t] =
          IF cthread[t].key \in DOMAIN memory_cache
          THEN [cthread[t] EXCEPT !.pc = "get_read"]
          ELSE IdleThread]
    /\ UNCHANGED <<now, envVars, calcVars, ghVars, long_term, resVars, cacheVars, loaderVars, reader, got, lastSet, setTs, flush>>

\* get: `entry = self._memory_cache[key]; if not entry.is_expired(...)`
TGetRead(t) ==
    /\ cthread[t].pc = "get_read"
    /\ LET k == cthread[t].key
       IN cthread' = [cthread EXCEPT ![t] =
             IF k \notin DOMAIN memory_cache THEN Raise(t, "KeyError")
             ELSE IF ~IsExpired(memory_cache[k], ttl_ms, now) THEN IdleThread
             ELSE [cthread[t] EXCEPT !.pc = "get_del"]]
    /\ UNCHANGED <<now, envVars, calcVars, ghVars, long_term, resVars, cacheVars, loaderVars, reader, got, lastSet, setTs, flush>>

\* get: `del self._memory_cache[key]`
TGetDel(t) ==
    /\ cthread[t].pc = "get_del"
    /\ LET k == cthread[t].key
       IN IF k \notin DOMAIN memory_cache
          THEN /\ cthread' = [cthread EXCEPT ![t] = Raise(t, "KeyError")]
               /\ UNCHANGED <<memory_cache, setTs>>
          ELSE /\ cthread' = [cthread EXCEPT ![t] = IdleThread]
               /\ memory_cache' = DictDel(memory_cache, k)
               /\ setTs' = DictDel(setTs, k)
    /\ UNCHANGED <<now, envVars, calcVars, ghVars, long_term, resVars, disk_loaded, disk, gh_auth_checked, gh_available,
                   loaderVars, reader, got, lastSet, flush>>

\* set: `timestamp = time.time() * 1000`
TSetCall(t, k, save) ==
    /\ cthread[t].pc = "idle"
    /\ cthread' = [cthread EXCEPT ![t] =
          [Enter(t, "set_store", k) EXCEPT !.val = ValueOf(t), !.save = save,
                                           !.ts = now]]
    /\ UNCHANGED <<now, envVars, calcVars, ghVars, long_term, resVars, cacheVars, loaderVars, reader, got, lastSet, setTs, flush>>

\* set: `self._memory_cache[key] = CacheEntry(timestamp, value)`
TSetStore(t) ==
    /\ cthread[t].pc = "set_store"
    /\ LET k == cthread[t].key
       IN /\ memory_cache' = DictSet(memory_cache, k,
                                     CacheEntry(cthread[t].ts, cthread[t].val))
          /\ setTs' = DictSet(setTs, k,
                IF k \in DOMAIN setTs THEN Max(setTs[k], cthread[t].ts)
                ELSE cthread[t].ts)
    /\ cthread' = [cthread EXCEPT ![t] =
          IF cthread[t].save THEN Enter(t, "save_iter", "") ELSE IdleThread]
    /\ UNCHANGED <<now, envVars, calcVars, ghVars, long_term, resVars, disk_loaded, disk, gh_auth_checked, gh_available,
                   loaderVars, reader, got, lastSet, flush>>

\* _save_to_disk started on its own, as the cleanup thread does.
TSaveCall(t) ==
    /\ cthread[t].pc = "idle"
    /\ cthread' = [cthread EXCEPT ![t] = Enter(t, "save_iter", "")]
    /\ UNCHANGED <<now, envVars, calcVars, ghVars, long_term, resVars, cacheVars, loaderVars, reader, got, lastSet, setTs, flush>>

\* _save_to_disk: the dict comprehension starts iterating _memory_cache.
TSaveIterBegin(t) ==
    /\ cthread[t].pc = "save_iter"
    /\ cthread' = [cthread EXCEPT ![t] =
          [cthread[t] EXCEPT !.pc = "save_iter_end",
                             !.size = Cardinality(DOMAIN memory_cache)]]
    /\ UNCHANGED <<now, envVars, calcVars, ghVars, long_term, resVars, cacheVars, loaderVars, reader, got, lastSet, setTs, flush>>

\* _save_to_disk: the iteration ends; a dict whose size changed meanwhile
\* raises RuntimeError, which `except IOError` does not catch.
TSaveIterEnd(t) ==
    /\ cthread[t].pc = "save_iter_end"
    /\ cthread' = [cthread EXCEPT ![t] =
          IF Cardinality(DOMAIN memory_cache) # cthread[t].size
          THEN Raise(t, "RuntimeError")
          ELSE [cthread[t] EXCEPT !.pc = "save_open",
                                  !.snap = SaveToDisk(CS, ttl_ms, now).disk.entries]]
    /\ UNCHANGED <<now, envVars, calcVars, ghVars, long_term, resVars, cacheVars, loaderVars, reader, got, lastSet, setTs, flush>>

\* _save_to_disk: `open(self.cache_file, 'w')` truncates the file.
TSaveOpen(t) ==
    /\ cthread[t].pc = "save_open"
    /\ disk' = DiskFile("empty", EmptyDict)
    /\ cthread' = [cthread EXCEPT ![t].pc = "save_dump"]
    /\ UNCHANGED <<now, envVars, calcVars, ghVars, long_term, resVars, memory_cache, disk_loaded, gh_auth_checked,
                   gh_available, loaderVars, reader, got, lastSet, setTs, flush>>

\* _save_to_disk: json.dump has written part of the text to the file.
TSaveWrite(t) ==
    /\ cthread[t].pc = "save_dump"
    /\ disk' = DiskFile("partial", EmptyDict)
    /\ cthread' = [cthread EXCEPT ![t].pc = "save_close"]
    /\ UNCHANGED <<now, envVars, calcVars, ghVars, long_term, resVars, memory_cache, disk_loaded, gh_auth_checked,
                   gh_available, loaderVars, reader, got, lastSet, setTs, flush>>

\* _save_to_disk: the `with` block closes the file, all text written.
TSaveClose(t) ==
    /\ cthread[t].pc \in {"save_dump", "save_close"}
    /\ disk' = DiskFile("object", cthread[t].snap)
    /\ cthread' = [cthread EXCEPT ![t] = IdleThread]
    /\ UNCHANGED <<now, envVars, calcVars, ghVars, long_term, resVars, memory_cache, disk_loaded, gh_auth_checked,
                   gh_available, loaderVars, reader, got, lastSet, setTs, flush>>

\* clear_expired: the list of expired keys.
TClearCall(t) ==
    /\ cthread[t].pc = "idle"
    /\ LET expired_keys == {k \in DOMAIN memory_cache :
                               IsExpired(memory_cache[k], ttl_ms, now)}
       IN cthread' = [cthread EXCEPT ![t] =
             [Enter(t, "clear_del", "") EXCEPT
                 !.snap = [k \in expired_keys |-> memory_cache[k]]]]
    /\ UNCHANGED <<now, envVars, calcVars, ghVars, long_term, resVars, cacheVars, loaderVars, reader, got, lastSet, setTs, flush>>

\* clear_expired: `for key in expired_keys: del self._memory_cache[key]`
TClearDel(t) ==
    /\ cthread[t].pc = "clear_del"
    /\ IF DOMAIN cthread[t].snap = {}
       THEN /\ cthread' = [cthread EXCEPT ![t] = IdleThread]
            /\ UNCHANGED <<memory_cache, setTs>>
       ELSE \E k \in DOMAIN cthread[t].snap :
               IF k \notin DOMAIN memory_cache
               THEN /\ cthread' = [cthread EXCEPT ![t] = Raise(t, "KeyError")]
                    /\ UNCHANGED <<memory_cache, setTs>>
               ELSE /\ cthread' = [cthread EXCEPT ![t].snap = DictDel(cthread[t].snap, k)]
                    /\ memory_cache' = DictDel(memory_cache, k)
                    /\ setTs' = DictDel(setTs, k)
    /\ UNCHANGED <<now, envVars, calcVars, ghVars, long_term, resVars, disk_loaded, disk, gh_auth_checked, gh_available,
                   loaderVars, reader, got, lastSet, flush>>

\* Another process opens the cache file and reads it (_load_from_disk).
ReaderRead ==
    /\ reader # disk.kind
    /\ reader' = disk.kind
    /\ UNCHANGED <<now, envVars, calcVars, ghVars, long_term, resVars, cacheVars, loaderVars, cthread, got, lastSet, setTs, flush>>

NextCache ==
    \/ \E t \in CThreads, k \in SharedKeys : TGetCall(t, k)
    \/ \E t \in CThreads : TGetLoad(t)
    \/ \E t \in CThreads : TGetIn(t)
    \/ \E t \in CThreads : TGetRead(t)
    \/ \E t \in CThreads : TGetDel(t)
    \/ \E t \in CThreads, k \in SharedKeys, save \in BOOLEAN : TSetCall(t, k, save)
    \/ \E t \in CThreads : TSetStore(t)
    \/ \E t \in CThreads : TSaveCall(t)
    \/ \E t \in CThreads : TSaveIterBegin(t)
    \/ \E t \in CThreads : TSaveIterEnd(t)
    \/ \E t \in CThreads : TSaveOpen(t)
    \/ \E t \in CThreads : TSaveWrite(t)
    \/ \E t \in CThreads : TSaveClose(t)
    \/ \E t \in CThreads : TClearCall(t)
    \/ \E t \in CThreads : TClearDel(t)
    \/ ReaderRead
    \/ Tick

\* The races do not depend on the TTL: the shortest one is used.
InitThreads == InitWith(DiskInits) /\ gh_installed = FALSE /\ ttl_ms = 1

SpecCache == InitThreads /\ [][NextCache]_vars

\* ------------------------------------------------- progress resolution
\* A local progress file (.flowforge/tasks.json, local/session.json,
\* milestones.json): missing, not valid JSON ("corrupt"), or a JSON value.
\* top is the type of the value; ms is what it holds at the milestone key
\* (current_milestone, milestone, current): nothing ("absent"), an object
\* ("dict") or another value ("str"). The four fields are those of the
\* milestone object; a field the object lacks has the default of its .get().
JsonFile(kind, top, ms, name, completed, total, timeRemaining) ==
    [kind |-> kind, top |-> top, ms |-> ms, name |-> name,
     completed |-> completed, total |-> total, timeRemaining |-> timeRemaining]
FileMissing == JsonFile("missing", "dict", "absent", "", 0, 0, "0m")
FileCorrupt == JsonFile("corrupt", "dict", "absent", "", 0, 0, "0m")
FileStrMilestone == JsonFile("json", "dict", "str", "", 0, 0, "0m")
FileNoName == JsonFile("json", "dict", "dict", "", 3, 8, "0m")
FileGood(n, c) == JsonFile("json", "dict", "dict", n, c, 8, "2h")
FileNegative(n) == JsonFile("json", "dict", "dict", n, -1, 8, "0m")

LocalFileNames == {"tasks", "session", "milestones"}
LocalFileSets ==
    [tasks |-> {FileMissing, FileStrMilestone,
                FileGood("sprint-9", 3), FileNegative("sprint-9")},
     session |-> {FileCorrupt, FileGood("sprint-8", 2)},
     milestones |-> {FileMissing, FileNoName, FileGood("sprint-7", 1)}]

\* A parsed JSON document as a Python value.
PyJson(f) == [py |-> "json", v |-> <<f>>]
\* `data and isinstance(data, dict)`
IsJsonDict(rv) == rv.py = "json" /\ rv.v[1].top = "dict"
\* The tuple a milestone object yields.
FieldsOf(f) == <<f.name, f.completed, f.total, f.timeRemaining>>

\* load_json_file: [cs |-> cache state, rv |-> the document, PyNone or the
\* exception that escapes]
\* the file's content as json.load returns it, None when it cannot be read
Parsed(f) == IF f.kind = "json" THEN PyJson(f) ELSE PyNone
\* g is what cache.get(cache_key) returned
LoadJsonFileMiss(g, f, key, ttl, t) ==
    IF Raised(g.rv) \/ g.rv # PyNone THEN g
    ELSE [cs |-> Set(g.cs, key, Parsed(f), FALSE, ttl, t), rv |-> Parsed(f)]
LoadJsonFile(cs, f, key, ttl, t) ==
    LoadJsonFileMiss(Get(cs, key, ttl, t), f, key, ttl, t)

\* The result of a resolver: exc is the exception that escapes ("" if none),
\* rec the tuple returned and from the file or tier it was taken from.
Resolved(cs, exc, rec, from) == [cs |-> cs, exc |-> exc, rec |-> rec, from |-> from]

\* get_milestone_from_local_files of the data loader. l is what
\* load_json_file returned for the file at hand.
\* tasks.json and session.json: `data.get(key, {}).get('name', '')` is
\* evaluated with no test of what data[key] is.
NameLookupRaises(l) == IsJsonDict(l.rv) /\ l.rv.v[1].ms = "str"
HasNamedMilestone(l) ==
    IsJsonDict(l.rv) /\ l.rv.v[1].ms = "dict" /\ l.rv.v[1].name # ""
\* milestones.json: `if current and isinstance(current, dict)`, the name is
\* not tested.
HasCurrentMilestone(l) == IsJsonDict(l.rv) /\ l.rv.v[1].ms = "dict"

FromMilestonesJson(l) ==
    IF Raised(l.rv) THEN Resolved(l.cs, l.rv.v[1], EMPTY, "")
    ELSE IF HasCurrentMilestone(l)
    THEN Resolved(l.cs, "", FieldsOf(l.rv.v[1]), "milestones")
    ELSE Resolved(l.cs, "", EMPTY, "default")

FromSessionJson(l, files, ttl, t) ==
    IF Raised(l.rv) THEN Resolved(l.cs, l.rv.v[1], EMPTY, "")
    ELSE IF NameLookupRaises(l) THEN Resolved(l.cs, "AttributeError", EMPTY, "")
    ELSE IF HasNamedMilestone(l)
    THEN Resolved(l.cs, "", FieldsOf(l.rv.v[1]), "session")
    ELSE FromMilestonesJson(
            LoadJsonFile(l.cs, files.milestones, "milestones_json", ttl, t))

FromTasksJson(l, files, ttl, t) ==
    IF Raised(l.rv) THEN Resolved(l.cs, l.rv.v[1], EMPTY, "")
    ELSE IF NameLookupRaises(l) THEN Resolved(l.cs, "AttributeError", EMPTY, "")
    ELSE IF HasNamedMilestone(l)
    THEN Resolved(l.cs, "", FieldsOf(l.rv.v[1]), "tasks")
    ELSE FromSessionJson(
            LoadJsonFile(l.cs, files.session, "session_json", ttl, t), files, ttl, t)

GetMilestoneFromLocalFiles(cs, files, ttl, t) ==
    FromTasksJson(LoadJsonFile(cs, files.tasks, "tasks_json", ttl, t), files, ttl, t)

\* GitHubCache._get_local_files_data: each file is read directly, and every
\* level is tested with isinstance before .get is used.
YieldsName(f) ==
    f.kind = "json" /\ f.top = "dict" /\ f.ms = "dict" /\ f.name # ""
GetLocalFilesData(cs, files) ==
    IF YieldsName(files.tasks)
    THEN Resolved(cs, "", FieldsOf(files.tasks), "tasks")
    ELSE IF YieldsName(files.session)
    THEN Resolved(cs, "", FieldsOf(files.session), "session")
    ELSE IF YieldsName(files.milestones)
    THEN Resolved(cs, "", FieldsOf(files.milestones), "milestones")
    ELSE Resolved(cs, "", EMPTY, "default")

\* ---- GitHubCache (core/github_cache.py): the file .github-cache.json
\* Its entries are {data, timestamp, ttl_minutes}, with timestamps in seconds.
DefaultTtlMinutes == 5
SecondsPerMinute == 60
MillisPerSecond == 1000
GhEntry(ts, rec) == [data |-> PyList(rec), timestamp |-> ts,
                     ttl_minutes |-> DefaultTtlMinutes]
CachedRecord == <<"m3", 4, 5, "1h">>
\* A timestamp older than the TTL at every time of the model.
LongAgo == 0 - (DefaultTtlMinutes * SecondsPerMinute + 1)
GhCacheInits ==
    {DiskMissing, DiskNonObject,
     DiskFile("object", [k \in {"github_issue_42"} |-> GhEntry(0, CachedRecord)]),
     DiskFile("object", [k \in {"github_issue_42"} |-> GhEntry(LongAgo, CachedRecord)]),
     DiskFile("object", [k \in {"github_issue_42", "k_list"} |->
        IF k = "k_list" THEN PyList(<<>>)
        ELSE [data |-> PyList(CachedRecord), timestamp |-> 0,
              ttl_minutes |-> DefaultTtlMinutes, timestamp_type |-> "str"]])}

\* _consistent_read: the entries of the file that are objects with data and
\* timestamp; {} when the file is missing, unreadable, invalid or no object.
ConsistentRead(file) ==
    IF file.kind = "object"
    THEN [k \in {x \in DOMAIN file.entries : HasEntryShape(file.entries[x])} |->
             file.entries[k]]
    ELSE EmptyDict

\* get_issue_data once _consistent_read has returned data: file is the cache
\* file at that moment and ok tells whether _atomic_write succeeds.
\* [file |-> the cache file afterwards, rv |-> tuple or None]
ReadIssueData(data, file, i, t, ok) ==
    LET key == CacheKey(i)
    IN IF key \notin DOMAIN data THEN [file |-> file, rv |-> PyNone]
       ELSE IF BadTimestamp(data[key])
       THEN \* TypeError in the TTL test, caught by `except Exception`
            [file |-> file, rv |-> PyNone]
       ELSE IF (t \div MillisPerSecond) - data[key].timestamp
                  > data[key].ttl_minutes * SecondsPerMinute
       THEN \* expired: removed, and the file rewritten by _atomic_write
            [file |-> IF ok THEN DiskFile("object", DictDel(data, key)) ELSE file,
             rv |-> PyNone]
       ELSE [file |-> file, rv |-> PyTuple(data[key].data.v)]

\* get_issue_data run without interruption
GetIssueData(file, i, t) == ReadIssueData(ConsistentRead(file), file, i, t, TRUE)

\* get_fallback_chain_data
GetFallbackChainData(file, files, i, t) ==
    LET c == GetIssueData(file, i, t)
        l == GetLocalFilesData(c.file, files)
    IN IF c.rv # PyNone THEN Resolved(c.file, "", c.rv.v, "remote")
       ELSE IF l.rec[1] # "" THEN l
       ELSE Resolved(c.file, "", EMPTY, "default")

\* ---- the status line builders
\* The branches git reports, and extract_issue_number on them.
Branches == {"main", "feature/42-login"}
ExtractIssueNumber(b) == IF b = "feature/42-login" THEN "42" ELSE ""

\* get_git_branch: br is what `git branch --show-current` prints.
GetGitBranchMiss(g, br, ttl, t) ==
    IF Raised(g.rv) \/ g.rv # PyNone THEN g
    ELSE [cs |-> Set(g.cs, "git_branch", PyStr(br), TRUE, ttl, t), rv |-> PyStr(br)]
GetGitBranch(cs, br, ttl, t) ==
    GetGitBranchMiss(Get(cs, "git_branch", ttl, t), br, ttl, t)

\* get_project_name_fallback, in a project without package.json: the name of
\* the project directory.
ProjectName == "mnesis_flutter"
DirectoryName(l) == IF Raised(l.rv) THEN l ELSE [cs |-> l.cs, rv |-> PyStr(ProjectName)]
GetProjectNameFallback(cs, ttl, t) ==
    DirectoryName(LoadJsonFile(cs, FileMissing, "package_json", ttl, t))

\* get_milestone_from_github with the default wait_for_fetch=True, run by one
\* thread: gd is _github_data, o the outcome of the remote commands. When gh
\* is unavailable the thread that line 327 starts ends at once (line 305).
SyncFetchSeq(a, o) ==
    IF a.rv THEN [cs |-> a.cs, rv |-> PyTuple(o.rec), src |-> "sync"]
    ELSE [cs |-> a.cs, rv |-> PyTuple(EMPTY), src |-> "unavailable"]
\* g is what cache.get(cache_key) returned
GithubCacheMiss(g, installed, o, ttl, t) ==
    IF Raised(g.rv) THEN [cs |-> g.cs, rv |-> g.rv, src |-> "raise"]
    ELSE IF g.rv # PyNone THEN [cs |-> g.cs, rv |-> g.rv, src |-> "cache"]
    ELSE SyncFetchSeq(IsGhAvailable(g.cs, installed, ttl, t), o)
GetMilestoneFromGithubSeq(cs, gd, i, installed, o, ttl, t) ==
    IF i \in DOMAIN gd THEN [cs |-> cs, rv |-> gd[i], src |-> "github_data"]
    ELSE GithubCacheMiss(Get(cs, CacheKey(i), ttl, t), installed, o, ttl, t)

\* The progress record a builder hands to the formatter. tier names, field by
\* field, the fallback tier the value was taken from; exc is the exception
\* that escapes the builder, caught the one its handler turned into the
\* fallback status string; gh tells how the remote lookup ended.
Tiers(x) == <<x, x, x, x>>
TierOf(l) == IF l.from = "default" THEN "default" ELSE "local"
Built(cs, exc, rec, tier, gh) ==
    [cs |-> cs, exc |-> exc, caught |-> "", rec |-> rec, tier |-> tier, gh |-> gh]
NotCalled(cs) == [cs |-> cs, rv |-> PyTuple(EMPTY), src |-> "not_called"]

\* `if not milestone_name: milestone_name = get_project_name_fallback()`
ProjectNamed(r, p) ==
    IF Raised(p.rv) THEN [r EXCEPT !.cs = p.cs, !.exc = p.rv.v[1]]
    ELSE [r EXCEPT !.cs = p.cs,
                   !.rec = <<p.rv.v[1], r.rec[2], r.rec[3], r.rec[4]>>,
                   !.tier = <<"default", r.tier[2], r.tier[3], r.tier[4]>>]
WithProjectName(r, ttl, t) ==
    IF r.exc # "" \/ r.rec[1] # "" THEN r
    ELSE ProjectNamed(r, GetProjectNameFallback(r.cs, ttl, t))

\* `except Exception as e:` of generate_status_line: the handler calls
\* get_git_branch and get_project_name_fallback again, outside any try.
HandlerProjectName(r, p) ==
    IF Raised(p.rv) THEN [r EXCEPT !.cs = p.cs, !.exc = p.rv.v[1]]
    ELSE [r EXCEPT !.cs = p.cs, !.exc = "", !.caught = r.exc]
HandlerBranch(r, b, ttl, t) ==
    IF Raised(b.rv) THEN [r EXCEPT !.cs = b.cs, !.exc = b.rv.v[1]]
    ELSE HandlerProjectName(r, GetProjectNameFallback(b.cs, ttl, t))
WithHandler(r, br, ttl, t) ==
    IF r.exc = "" THEN r
    ELSE HandlerBranch(r, GetGitBranch(r.cs, br, ttl, t), ttl, t)

\* Lines "if issue_num and not prefer_local: gh_data = ..." of the builders;
\* b is what get_git_branch returned.
LookupRemote(b, gd, prefer_local, installed, o, ttl, t) ==
    IF ExtractIssueNumber(b.rv.v[1]) # "" /\ ~prefer_local
    THEN GetMilestoneFromGithubSeq(b.cs, gd, ExtractIssueNumber(b.rv.v[1]),
                                   installed, o, ttl, t)
    ELSE NotCalled(b.cs)
\* `if gh_data[0]:` the four fields are those of gh_data, else the defaults
GotRemote(gh) == gh.rv.v[1] # ""
RemoteRec(gh) == IF GotRemote(gh) THEN gh.rv.v ELSE EMPTY
RemoteTier(gh) == IF GotRemote(gh) THEN Tiers("remote") ELSE Tiers("default")

\* statusline.py, generate_status_line (lines 110-139)
\* lines 128-135, once get_milestone_from_local_files has returned l
StatusLineLocal(gh, issue_num, l) ==
    IF ~GotRemote(gh) /\ issue_num # ""
    THEN \* local files, only on a ticket branch
         Built(l.cs, l.exc, l.rec, Tiers(TierOf(l)), gh.src)
    ELSE IF l.exc = "" /\ l.rec[4] \notin {"", "0m"}
    THEN \* the time remaining alone is taken from the local files
         Built(l.cs, "", <<RemoteRec(gh)[1], RemoteRec(gh)[2], RemoteRec(gh)[3], l.rec[4]>>,
               <<RemoteTier(gh)[1], RemoteTier(gh)[2], RemoteTier(gh)[3], TierOf(l)>>,
               gh.src)
    ELSE Built(l.cs, l.exc, RemoteRec(gh), RemoteTier(gh), gh.src)

StatusLineRemote(gh, issue_num, files, ttl, t) ==
    IF Raised(gh.rv) THEN Built(gh.cs, gh.rv.v[1], EMPTY, Tiers("default"), gh.src)
    ELSE IF GotRemote(gh) /\ gh.rv.v[4] # "0m"
    THEN Built(gh.cs, "", gh.rv.v, Tiers("remote"), gh.src)
    ELSE StatusLineLocal(gh, issue_num,
                         GetMilestoneFromLocalFiles(gh.cs, files, ttl, t))

\* b is what get_git_branch returned
StatusLineRecord(b, gd, files, prefer_local, installed, o, ttl, t) ==
    IF Raised(b.rv) THEN Built(b.cs, b.rv.v[1], EMPTY, Tiers("default"), "raise")
    ELSE StatusLineRemote(LookupRemote(b, gd, prefer_local, installed, o, ttl, t),
                          ExtractIssueNumber(b.rv.v[1]), files, ttl, t)

\* core/statusline_complex.py, _build_formatting_context (lines 235-256)
FormattingContextLocal(gh, l) == Built(l.cs, l.exc, l.rec, Tiers(TierOf(l)), gh.src)

FormattingContextRemote(gh, files, ttl, t) ==
    IF Raised(gh.rv) THEN Built(gh.cs, gh.rv.v[1], EMPTY, Tiers("default"), gh.src)
    ELSE IF GotRemote(gh) THEN Built(gh.cs, "", gh.rv.v, Tiers("remote"), gh.src)
    ELSE FormattingContextLocal(gh, GetMilestoneFromLocalFiles(gh.cs, files, ttl, t))

\* b is what get_git_branch returned
FormattingContextRecord(b, gd, files, prefer_local, installed, o, ttl, t) ==
    IF Raised(b.rv) THEN Built(b.cs, b.rv.v[1], EMPTY, Tiers("default"), "raise")
    ELSE FormattingContextRemote(
            LookupRemote(b, gd, prefer_local, installed, o, ttl, t), files, ttl, t)

\* core/statusline.py, generate_status_line (lines 91-108): local files first
CoreStatusLineRemote(l, gh) ==
    IF Raised(gh.rv) THEN Built(gh.cs, gh.rv.v[1], EMPTY, Tiers("default"), gh.src)
    ELSE IF GotRemote(gh) THEN Built(gh.cs, "", gh.rv.v, Tiers("remote"), gh.src)
    ELSE Built(gh.cs, "", l.rec, Tiers(TierOf(l)), gh.src)

CoreStatusLineLocal(l, issue_num, gd, prefer_local, installed, o, ttl, t) ==
    IF l.exc # "" THEN Built(l.cs, l.exc, EMPTY, Tiers("default"), "not_called")
    ELSE CoreStatusLineRemote(l,
            IF l.rec[1] = "" /\ issue_num # "" /\ ~prefer_local
            THEN GetMilestoneFromGithubSeq(l.cs, gd, issue_num, installed, o, ttl, t)
            ELSE NotCalled(l.cs))

\* b is what get_git_branch returned
CoreStatusLineRecord(b, gd, files, prefer_local, installed, o, ttl, t) ==
    IF Raised(b.rv) THEN Built(b.cs, b.rv.v[1], EMPTY, Tiers("default"), "raise")
    ELSE CoreStatusLineLocal(GetMilestoneFromLocalFiles(b.cs, files, ttl, t),
                             ExtractIssueNumber(b.rv.v[1]), gd, prefer_local,
                             installed, o, ttl, t)

\* ---- calls of the resolvers, one after another in one process
ResolveDisks ==
    {DiskMissing, DiskNonObject,
     DiskFile("object", [k \in {"github_issue_42"} |->
                            CacheEntry(0, PyList(OldRecord))])}

\* A project uses the data loader's cache file or the file of GitHubCache.
InitResolve ==
    /\ \/ InitCommon(ResolveDisks) /\ gh_cache = DiskMissing
       \/ InitCommon({DiskMissing}) /\ gh_cache \in GhCacheInits \ {DiskMissing}
    /\ local_files \in [tasks : LocalFileSets.tasks, session : LocalFileSets.session,
                        milestones : LocalFileSets.milestones]
    /\ branch \in Branches
    /\ resolved = NoResolved

Note(op, r, prefer_local) ==
    [op |-> op, exc |-> r.exc, caught |-> r.caught, rec |-> r.rec, tier |-> r.tier,
     gh |-> r.gh, from |-> "", issue |-> ExtractIssueNumber(branch),
     prefer_local |-> prefer_local, time |-> 0, prev |-> NoResolved.prev]

\* The builder returns: the cache is as it left it, and r is noted.
HandOver(op, prefer_local, r) ==
    /\ SetCS(r.cs)
    /\ resolved' = Note(op, r, prefer_local)

\* The call before this one, when it was a call of the same resolver.
Previous(op) ==
    IF resolved.op = op THEN [op |-> op, rec |-> resolved.rec, time |-> resolved.time]
    ELSE NoResolved.prev

\* StatusLineDataLoader.get_milestone_from_local_files()
CallGetMilestoneFromLocalFiles ==
    /\ calls < MaxResolves
    /\ calls' = calls + 1
    /\ LET r == GetMilestoneFromLocalFiles(CS, local_files, ttl_ms, now)
       IN /\ SetCS(r.cs)
          /\ resolved' = [NoResolved EXCEPT !.op = "local_files", !.exc = r.exc,
                             !.rec = r.rec, !.from = r.from,
                             !.tier = Tiers(TierOf(r))]
    /\ UNCHANGED <<now, envVars, calcVars, ghVars, long_term, gh_cache, github_data, github_fetch_thread, caller, worker,
                   last, remoteLog, fetchedAt, lastWrite, apiVars>>

\* GitHubCache.get_fallback_chain_data(issue_number)
CallGetFallbackChainData(i) ==
    /\ calls < MaxResolves
    /\ calls' = calls + 1
    /\ LET r == GetFallbackChainData(gh_cache, local_files, i, now)
       IN /\ gh_cache' = r.cs
          /\ resolved' = [NoResolved EXCEPT !.op = "fallback_chain", !.rec = r.rec,
                             !.from = r.from, !.issue = i, !.time = now,
                             !.prev = Previous("fallback_chain"),
                             !.tier = Tiers(IF r.from \in LocalFileNames
                                            THEN "local" ELSE r.from)]
    /\ UNCHANGED <<now, envVars, calcVars, ghVars, long_term, cacheVars, github_data, github_fetch_thread, caller, worker,
                   last, remoteLog, fetchedAt, lastWrite, apiVars>>

\* StatusLineDataLoader.get_milestone_from_github(issue_num)
CallGetMilestoneFromGithub(i, o) ==
    /\ calls < MaxResolves
    /\ calls' = calls + 1
    /\ LET r == GetMilestoneFromGithubSeq(CS, github_data, i, gh_installed, o,
                                          ttl_ms, now)
       IN /\ SetCS(r.cs)
          /\ resolved' = [NoResolved EXCEPT !.op = "github",
                             !.exc = IF Raised(r.rv) THEN r.rv.v[1] ELSE "",
                             !.rec = IF Raised(r.rv) THEN EMPTY ELSE r.rv.v,
                             !.gh = r.src, !.issue = i, !.time = now,
                             !.tier = Tiers("remote"),
                             !.prev = Previous("github")]
    /\ UNCHANGED <<now, envVars, calcVars, ghVars, long_term, gh_cache, github_data, github_fetch_thread, caller, worker,
                   last, remoteLog, fetchedAt, lastWrite, apiVars>>

\* statusline.py: StatusLine.generate_status_line(prefer_local)
CallGenerateStatusLine(prefer_local, o) ==
    /\ calls < MaxResolves
    /\ calls' = calls + 1
    /\ HandOver("statusline", prefer_local,
              WithHandler(
                 WithProjectName(
                    StatusLineRecord(GetGitBranch(CS, branch, ttl_ms, now), github_data,
                       local_files, prefer_local, gh_installed, o, ttl_ms, now),
                    ttl_ms, now),
                 branch, ttl_ms, now))
    /\ UNCHANGED <<now, envVars, calcVars, ghVars, long_term, gh_cache, github_data, github_fetch_thread, caller, worker,
                   last, remoteLog, fetchedAt, lastWrite, apiVars>>

\* core/statusline_complex.py: generate_status_line over _build_formatting_context
CallBuildFormattingContext(prefer_local, o) ==
    /\ calls < MaxResolves
    /\ calls' = calls + 1
    /\ HandOver("formatting_context", prefer_local,
              WithHandler(
                 WithProjectName(
                    FormattingContextRecord(GetGitBranch(CS, branch, ttl_ms, now), github_data,
                       local_files, prefer_local, gh_installed, o, ttl_ms, now),
                    ttl_ms, now),
                 branch, ttl_ms, now))
    /\ UNCHANGED <<now, envVars, calcVars, ghVars, long_term, gh_cache, github_data, github_fetch_thread, caller, worker,
                   last, remoteLog, fetchedAt, lastWrite, apiVars>>

\* core/statusline.py: generate_status_line(prefer_local)
CallCoreGenerateStatusLine(prefer_local, o) ==
    /\ calls < MaxResolves
    /\ calls' = calls + 1
    /\ HandOver("core_statusline", prefer_local,
              WithHandler(
                 WithProjectName(
                    CoreStatusLineRecord(GetGitBranch(CS, branch, ttl_ms, now), github_data,
                       local_files, prefer_local, gh_installed, o, ttl_ms, now),
                    ttl_ms, now),
                 branch, ttl_ms, now))
    /\ UNCHANGED <<now, envVars, calcVars, ghVars, long_term, gh_cache, github_data, github_fetch_thread, caller, worker,
                   last, remoteLog, fetchedAt, lastWrite, apiVars>>

NextResolve ==
    \/ CallGetMilestoneFromLocalFiles
    \/ \E i \in Issues : CallGetFallbackChainData(i)
    \/ \E i \in Issues, o \in RemoteOutcomes : CallGetMilestoneFromGithub(i, o)
    \/ \E p \in BOOLEAN, o \in RemoteOutcomes : CallGenerateStatusLine(p, o)
    \/ \E p \in BOOLEAN, o \in RemoteOutcomes : CallBuildFormattingContext(p, o)
    \/ \E p \in BOOLEAN, o \in RemoteOutcomes : CallCoreGenerateStatusLine(p, o)
    \/ Tick

SpecResolve == InitResolve /\ [][NextResolve]_vars

\* ---------------------------------------------------------------- claims
HitSources == {"github_data", "cache"}

\* C1: a call made with the default wait_for_fetch=True, as generate_status_line
\* makes it, never runs a remote gh command on the calling thread; remote
\* commands run on background workers only.
C1_NoRemoteOnForeground == "caller" \notin remoteLog

\* C2: at most one background fetch thread per issue key is running at any
\* time, whatever the interleaving of the callers.
C2_AtMostOneFetchPerKey ==
    \A i \in Issues :
        Cardinality({w \in Workers : worker[w].pc # "dead" /\ worker[w].issue = i}) <= 1

\* Equal as JSON values (a tuple is stored as an array).
SameJson(a, b) == JsonRoundTrip(a) = JsonRoundTrip(b)

\* C3: after set(key, v) at time T with no later set of the key, get(key)
\* returns v when read at a time <= T + ttl_ms and None when read later.
C3_GetWithinTTL ==
    got.key \in DOMAIN lastSet =>
        IF got.time <= lastSet[got.key].timestamp + ttl_ms
        THEN SameJson(got.rv, lastSet[got.key].data)
        ELSE got.rv = PyNone

\* C4: a record that get_milestone_from_github returns from _github_data or
\* from the cache was fetched at most ttl_ms before the call.
C4_StalenessBoundedByTTL ==
    last.src \in HitSources => last.fresh

InFlight(i) ==
    {worker[w].result : w \in {x \in Workers : worker[x].pc = "f_cache"
                                                /\ worker[x].issue = i}}

\* C6: a call that starts after a fetch wrote its record to the cache, and
\* within ttl_ms of that write, returns that record or one written later
\* (stated for the calls after which no later write happened: that record,
\* or one that a running fetch is about to write), never an older one.
C6_NoOlderValueAfterFetch ==
    (/\ last.seen # NoWrite
     /\ LatestWrite(last.issue) = last.seen
     /\ now <= last.seen.wtime + ttl_ms)
    => last.ret.v \in {last.seen.rec} \cup InFlight(last.issue)

\* C7: a failed fetch leaves no record behind, so no later call is answered
\* with the result of a failed fetch instead of starting a new attempt.
C7_FailedFetchIsRetried ==
    ~(last.src \in HitSources /\ last.failed)

\* C8: once the concurrent set calls to a key have returned, the entry of
\* the key carries the latest timestamp that any of those calls took.
C8_LatestTimestampWins ==
    (\A t \in CThreads : cthread[t].pc = "idle") =>
        \A k \in DOMAIN setTs :
            k \in DOMAIN memory_cache /\ memory_cache[k].timestamp = setTs[k]

\* C9: the mutating operations of the cache exclude each other, so each takes
\* effect atomically: none fails because another thread changed the map in
\* the middle of it.
C9_NoFailureFromConcurrentMutation ==
    \A t \in CThreads : cthread[t].exc = ""

\* C10: a process reading the cache file sees a complete snapshot, never the
\* truncated or half-written file of a flush in progress.
C10_ReaderSeesCompleteSnapshot == reader \notin {"empty", "partial"}

\* C11: when the cache file is not a well-formed snapshot (invalid JSON,
\* unreadable, or valid JSON that is not an object), get raises nothing, and
\* returns None for every key that was not set: the cache behaves as empty.
C11_MalformedFileBehavesEmpty ==
    (disk.kind \in {"invalid", "unreadable", "nonobject"} /\ got.key # "") =>
        /\ ~Raised(got.rv)
        /\ got.key \notin DOMAIN lastSet => got.rv = PyNone

\* C12: the first get of an instance, on a file that is a JSON object, raises
\* nothing and loads every well-formed unexpired entry, leaving out exactly
\* the entries of another shape.
C12_MalformedEntriesSkipped ==
    (disk.kind = "object" /\ got.first /\ got.time = now /\ lastSet = EmptyDict) =>
        /\ ~Raised(got.rv)
        /\ \A k \in DOMAIN disk.entries :
              LET e == disk.entries[k]
                  wellFormed == HasEntryShape(e) /\ ~BadTimestamp(e)
              IN IF wellFormed /\ ~IsExpired(e, ttl_ms, got.time)
                 THEN /\ k \in DOMAIN memory_cache
                      /\ memory_cache[k] = CacheEntry(e.timestamp, e.data)
                 ELSE k \notin DOMAIN memory_cache

\* C13: while the disk is unavailable (file or directory missing, unreadable,
\* unwritable) no call raises, and a value stored by set is returned by get
\* until its TTL has elapsed.
C13_DiskUnavailableMemoryOnly ==
    disk.kind \in {"missing", "nodir", "unreadable"} =>
        /\ ~Raised(got.rv)
        /\ (got.key \in DOMAIN lastSet
              /\ got.time <= lastSet[got.key].timestamp + ttl_ms)
             => got.rv = lastSet[got.key].data

\* C14: after _save_to_disk the file holds exactly the entries of memory that
\* were unexpired at the flush, with their timestamps and (as JSON) their
\* values; and the first get of a new instance for a key of the snapshot,
\* within the entry's TTL, returns the value that was stored.
C14_FlushLoadRoundTrip ==
    /\ (flush.done /\ disk.kind = "object") =>
          /\ DOMAIN disk.entries = DOMAIN flush.cur
          /\ \A k \in DOMAIN flush.cur :
                /\ disk.entries[k].timestamp = flush.cur[k].timestamp
                /\ disk.entries[k].data = JsonRoundTrip(flush.cur[k].data)
    /\ (got.first /\ got.key \in DOMAIN flush.prev
          /\ got.key \notin DOMAIN lastSet
          /\ got.time <= flush.prev[got.key].timestamp + ttl_ms)
         => got.rv = flush.prev[got.key].data

\* The file the local fallback is to answer from: the first of tasks.json,
\* session.json, milestones.json that yields a non-empty milestone name.
Qualifying == {n \in LocalFileNames : YieldsName(local_files[n])}
FirstQualifying ==
    IF "tasks" \in Qualifying THEN "tasks"
    ELSE IF "session" \in Qualifying THEN "session" ELSE "milestones"
LocalAnswered == resolved.op \in {"local_files", "fallback_chain"}
                    /\ resolved.from # "remote" /\ resolved.exc = ""

\* C15: when the local-file fallback returns, its result is the four fields
\* of the first file in the order tasks.json, session.json, milestones.json
\* that yields a non-empty name, and the default ('', 0, 0, '0m') if no file
\* does; a file without a name contributes nothing.
C15_FirstNamedFileWins ==
    LocalAnswered =>
        IF Qualifying = {} THEN resolved.rec = EMPTY /\ resolved.from = "default"
        ELSE /\ resolved.rec = FieldsOf(local_files[FirstQualifying])
             /\ resolved.from = FirstQualifying

\* A status line builder has handed a record to the formatter.
Formatted == resolved.op \in {"statusline", "formatting_context", "core_statusline"}
                /\ resolved.exc = "" /\ resolved.caught = ""

\* C16: the name, completed, total and time-remaining of the record handed to
\* the formatter all come from one fallback tier (remote, local or default).
C16_OneTierPerRecord ==
    Formatted => \A i \in 1..4 : resolved.tier[i] = resolved.tier[1]

\* No remote data can reach the call: the remote fetch is disabled, gh is not
\* available and neither cache holds a record of the issue.
NoCachedRecord ==
    /\ \A i \in Issues : CacheKey(i) \notin DOMAIN memory_cache
    /\ disk.kind = "object" => \A i \in Issues : CacheKey(i) \notin DOMAIN disk.entries
RemoteUnavailable ==
    IF resolved.op = "fallback_chain" THEN resolved.from # "remote"
    ELSE Formatted /\ resolved.prefer_local /\ ~gh_installed /\ NoCachedRecord

\* C17: when remote data is unavailable and a local file yields a non-empty
\* name n with completed c and total t, the resolved record is (n, c, t) of
\* that file, whether or not the branch yields an issue number.
C17_LocalRecordWhenRemoteUnavailable ==
    (resolved.op \notin {"none", "local_files", "github"} /\ resolved.exc = ""
        /\ resolved.caught = "" /\ RemoteUnavailable /\ Qualifying # {}) =>
        \A i \in 1..3 : resolved.rec[i] = FieldsOf(local_files[FirstQualifying])[i]

\* C18: every progress record resolved has completed >= 0 and total >= 0.
C18_CountsNonNegative == resolved.rec[2] >= 0 /\ resolved.rec[3] >= 0

\* C19: with a cache file that is missing or a JSON object, whatever the local
\* files hold and whatever the remote answers, no resolver raises: each call
\* returns a record, and generate_status_line a string.
C19_ResolutionNeverRaises ==
    (resolved.op # "none" /\ disk.kind # "nonobject") => resolved.exc = ""

\* C20: when a resolver is called twice in a row for the same issue, within
\* the TTL and with no background fetch completing in between, the second
\* call returns the record the first returned.
C20_ConsecutiveCallsIdentical ==
    (resolved.op \in {"github", "fallback_chain"} /\ resolved.prev.op = resolved.op
        /\ resolved.exc = "" /\ resolved.time - resolved.prev.time < ttl_ms) =>
        resolved.rec = resolved.prev.rec

\* ------------------------------------------- context_usage_calculator.py
\* Everything the calculator steps leave alone.
restVars == <<now, envVars, resVars, cacheVars, loaderVars, apiVars, ghVars, long_term>>

\* A Python float is kept as the exact fraction n/d in lowest terms (d > 0);
\* the rounding of the two float operations is not modelled.
RECURSIVE GCD(_, _)
GCD(a, b) == IF b = 0 THEN a ELSE GCD(b, a % b)
Abs(a) == IF a < 0 THEN 0 - a ELSE a
Ratio(n, d) == [n |-> (IF n < 0 THEN 0 - 1 ELSE 1) * (Abs(n) \div GCD(Abs(n), d)),
                d |-> d \div GCD(Abs(n), d)]
Float(k) == [n |-> k, d |-> 1]
FloatMax(p, q) == IF p.n * q.d >= q.n * p.d THEN p ELSE q
FloatMin(p, q) == IF p.n * q.d <= q.n * p.d THEN p ELSE q

UsedTokens == {0 - 5, 0, 1, 15, 50000, 150000, 200000, 250000}
MaxTokens == {0, 3, 200000, 1000000}

CalculatePercentageUnclamped(used_tokens, max_tokens) ==
    IF max_tokens <= 0 THEN Float(0)
    ELSE Ratio(used_tokens * 100, max_tokens)
CalculatePercentage(used_tokens, max_tokens) ==
    IF max_tokens <= 0 THEN Float(0)
    ELSE FloatMin(Float(100), FloatMax(Float(0), Ratio(used_tokens * 100, max_tokens)))

CallCalculatePercentage ==
    /\ context_usage.op = "none"
    /\ \E u \in UsedTokens, m \in MaxTokens :
          context_usage' = [op |-> "calculate_percentage", used_tokens |-> u,
                            max_tokens |-> m, percentage |-> CalculatePercentage(u, m)]
    /\ UNCHANGED <<restVars, milestone_eta>>

\* C21: for all integers usedTokens and all maxTokens > 0, calculate_percentage
\* returns usedTokens/maxTokens*100 clamped to [0, 100]: 0 when usedTokens <= 0,
\* 100 when usedTokens >= maxTokens, and the exact ratio in between.
C21_PercentageIsClampedRatio ==
    (context_usage.op = "calculate_percentage" /\ context_usage.max_tokens > 0) =>
        /\ context_usage.percentage.d > 0
        /\ context_usage.used_tokens <= 0 => context_usage.percentage.n = 0
        /\ context_usage.used_tokens >= context_usage.max_tokens =>
              context_usage.percentage.n = 100 * context_usage.percentage.d
        /\ (0 < context_usage.used_tokens
              /\ context_usage.used_tokens < context_usage.max_tokens) =>
              context_usage.percentage.n * context_usage.max_tokens
                 = context_usage.used_tokens * 100 * context_usage.percentage.d
C21_Witness ==
    /\ context_usage.op = "calculate_percentage"
    /\ context_usage.used_tokens = 50000 /\ context_usage.max_tokens = 200000
    /\ context_usage.percentage = Float(25)

\* ------------------------------------------------- get_model_token_limit
\* A Python str is the tuple of its characters.
AsciiUppercase == <<"A", "B", "C", "D", "E", "F", "G", "H", "I", "J", "K", "L", "M", "N", "O", "P", "Q", "R", "S", "T", "U", "V", "W", "X", "Y", "Z">>
AsciiLowercase == <<"a", "b", "c", "d", "e", "f", "g", "h", "i", "j", "k", "l", "m", "n", "o", "p", "q", "r", "s", "t", "u", "v", "w", "x", "y", "z">>
LowerOf == [c \in {AsciiUppercase[j] : j \in 1..26} |->
              AsciiLowercase[CHOOSE j \in 1..26 : AsciiUppercase[j] = c]]
Lower(s) == [i \in 1..Len(s) |-> IF s[i] \in DOMAIN LowerOf THEN LowerOf[s[i]] ELSE s[i]]
\* sub in s
In(sub, s) == \E i \in 0..(Len(s) - Len(sub)) : SubSeq(s, i + 1, i + Len(sub)) = sub

CHARS_PER_TOKEN == 4
DefaultLimit == 200000
LargeLimit == 1000000
\* MODEL_LIMITS, in the order the dict is written
MODEL_LIMITS == <<
    [known_model |-> <<"O", "p", "u", "s", " ", "4", ".", "1">>,
     limit |-> DefaultLimit],
    [known_model |-> <<"C", "l", "a", "u", "d", "e", " ", "3", " ", "O", "p", "u", "s">>,
     limit |-> DefaultLimit],
    [known_model |-> <<"C", "l", "a", "u", "d", "e", " ", "3", ".", "5", " ", "S", "o", "n", "n", "e", "t">>,
     limit |-> DefaultLimit],
    [known_model |-> <<"C", "l", "a", "u", "d", "e", " ", "3", " ", "H", "a", "i", "k", "u">>,
     limit |-> DefaultLimit],
    [known_model |-> <<"C", "l", "a", "u", "d", "e", "-", "3", "-", "o", "p", "u", "s">>,
     limit |-> DefaultLimit],
    [known_model |-> <<"C", "l", "a", "u", "d", "e", "-", "3", ".", "5", "-", "s", "o", "n", "n", "e", "t">>,
     limit |-> DefaultLimit],
    [known_model |-> <<"C", "l", "a", "u", "d", "e", "-", "3", "-", "h", "a", "i", "k", "u">>,
     limit |-> DefaultLimit],
    [known_model |-> <<"C", "l", "a", "u", "d", "e", " ", "O", "p", "u", "s">>,
     limit |-> DefaultLimit],
    [known_model |-> <<"C", "l", "a", "u", "d", "e", " ", "S", "o", "n", "n", "e", "t">>,
     limit |-> DefaultLimit],
    [known_model |-> <<"C", "l", "a", "u", "d", "e", " ", "H", "a", "i", "k", "u">>,
     limit |-> DefaultLimit],
    [known_model |-> <<"C", "l", "a", "u", "d", "e", " ", "S", "o", "n", "n", "e", "t", " ", "4", " ", "1", "M">>,
     limit |-> LargeLimit],
    [known_model |-> <<"C", "l", "a", "u", "d", "e", " ", "S", "o", "n", "n", "e", "t", " ", "4", " ", "(", "1", "M", ")">>,
     limit |-> LargeLimit],
    [known_model |-> <<"C", "l", "a", "u", "d", "e", "-", "s", "o", "n", "n", "e", "t", "-", "4", "-", "1", "m">>,
     limit |-> LargeLimit]>>

ModelNames == {
    <<"C", "l", "a", "u", "d", "e", " ", "S", "o", "n", "n", "e", "t", " ", "4", " ", "1", "M">>,
    <<"c", "l", "a", "u", "d", "e", " ", "s", "o", "n", "n", "e", "t", " ", "4", " ", "1", "m">>,
    <<"C", "l", "a", "u", "d", "e", " ", "O", "p", "u", "s">>,
    <<"C", "L", "A", "U", "D", "E", " ", "O", "P", "U", "S">>,
    <<"O", "p", "u", "s", " ", "4", ".", "1">>,
    <<"g", "p", "t", "-", "4">>,
    <<"G", "P", "T", "-", "4">>}
\* What stdin holds: "" ("empty"), text that is not JSON ("invalid"), a JSON
\* array, or a JSON object with the fields the calculator reads. len is
\* len(stdin_data); transcript_path is "" when the object has no such field.
StdinData(json, context_window, display_name, context, transcript_path, e200k, e1m, len) ==
    [json |-> json, context_window |-> context_window, display_name |-> display_name,
     context |-> context, transcript_path |-> transcript_path,
     exceeds_200k_tokens |-> e200k, exceeds_1m_tokens |-> e1m, len |-> len]
NoContext == [given |-> FALSE, used |-> 0, max |-> 0]
Legacy(used, max) == [given |-> TRUE, used |-> used, max |-> max]
StdinObject(context_window, context, transcript_path, e200k, e1m, len) ==
    StdinData("object", context_window, <<>>, context, transcript_path, e200k, e1m, len)
StdinEmpty == StdinData("empty", <<>>, <<>>, NoContext, "", "absent", "absent", 0)
StdinInputs ==
    {StdinEmpty,
     StdinData("invalid", <<>>, <<>>, NoContext, "", "absent", "absent", 8),
     StdinData("array", <<>>, <<>>, NoContext, "", "absent", "absent", 2),
     StdinData("object", <<>>, <<"S", "o", "n", "n", "e", "t", " ", "(", "1", "M", ")">>,
               NoContext, "", "absent", "absent", 50),
     StdinObject(<<>>, NoContext, "", "absent", "absent", 2),
     StdinObject(<<>>, NoContext, "t.jsonl", "absent", "absent", 40),
     StdinObject(<<>>, NoContext, "t.jsonl", "False", "absent", 261),
     StdinObject(<<>>, Legacy(50000, 200000), "", "absent", "absent", 45),
     StdinObject(<<>>, Legacy(0 - 5, 0), "t.jsonl", "absent", "absent", 60),
     StdinObject(<<"1", "M">>, NoContext, "t.jsonl", "absent", "absent", 70),
     StdinObject(<<"2", "0", "0", "k">>, NoContext, "t.jsonl", "True", "absent", 70),
     StdinObject(<<"1", "M">>, NoContext, "t.jsonl", "False", "True", 90)}

Limit(n) == [exc |-> "", limit |-> n]
KnownModels(model_name) ==
    {i \in 1..Len(MODEL_LIMITS) : In(Lower(MODEL_LIMITS[i].known_model), Lower(model_name))}
FirstKnownModel(model_name) ==
    CHOOSE i \in KnownModels(model_name) : \A j \in KnownModels(model_name) : i <= j
LimitByName(model_name) ==
    IF In(<<"1", "M">>, model_name)
          \/ In(<<"1", "0", "0", "0", "0", "0", "0">>, model_name)
    THEN Limit(LargeLimit)
    ELSE IF KnownModels(model_name) # {}
    THEN Limit(MODEL_LIMITS[FirstKnownModel(model_name)].limit)
    ELSE Limit(DefaultLimit)
GetModelTokenLimit(model_name, stdin_data) ==
    IF stdin_data.json \in {"empty", "invalid"} THEN LimitByName(model_name)
    ELSE IF stdin_data.json = "array" THEN [exc |-> "AttributeError", limit |-> 0]
    ELSE IF In(<<"1", "M">>, stdin_data.context_window)
              \/ In(<<"1", "0", "0", "0", "0", "0", "0">>, stdin_data.context_window)
    THEN Limit(LargeLimit)
    ELSE IF In(<<"2", "0", "0", "k">>, stdin_data.context_window)
              \/ In(<<"2", "0", "0", "0", "0", "0">>, stdin_data.context_window)
    THEN Limit(DefaultLimit)
    ELSE IF In(<<"1", "M">>, stdin_data.display_name)
              \/ In(<<"1", "0", "0", "0", "0", "0", "0">>, stdin_data.display_name)
    THEN Limit(LargeLimit)
    ELSE LimitByName(model_name)

CallGetModelTokenLimit ==
    /\ context_usage.op = "none"
    /\ \E m \in ModelNames, s \in StdinInputs :
          context_usage' = [op |-> "get_model_token_limit", model_name |-> m,
                            stdin_data |-> s, rv |-> GetModelTokenLimit(m, s)]
    /\ UNCHANGED <<restVars, milestone_eta>>

\* The smallest window of the table.
SmallestLimit ==
    CHOOSE n \in {MODEL_LIMITS[i].limit : i \in 1..Len(MODEL_LIMITS)} :
        \A i \in 1..Len(MODEL_LIMITS) : n <= MODEL_LIMITS[i].limit

\* C27: get_model_token_limit matches the model name against the table without
\* regard to letter case: two names that differ only in letter case resolve to
\* the same limit, and a name that matches no table entry resolves to the
\* smallest window of the table.
C27_LimitIgnoresLetterCase ==
    (context_usage.op = "get_model_token_limit" /\ context_usage.stdin_data = StdinEmpty) =>
        /\ \A other \in ModelNames :
              Lower(other) = Lower(context_usage.model_name) =>
                  GetModelTokenLimit(other, StdinEmpty) = context_usage.rv
        /\ KnownModels(context_usage.model_name) = {} =>
              context_usage.rv = Limit(SmallestLimit)

\* -------------------------------------------------- parse_transcript_file
MaxLines == 2

\* A line of the transcript: blank, text that is not JSON ("invalid"), a JSON
\* value that is not an object ("scalar"), or a JSON object. Of an object the
\* model keeps message.usage (absent, a dict or a str), content (absent, a str
\* of chars characters, or a list of one text item of chars characters followed
\* by an item whose text is a number) and other, the characters len(str(.))
\* counts for tool_input, tool_output, function_call, assistant and user.
NoUsage == [shape |-> "absent", d |-> <<>>]
Usage(d) == [shape |-> "dict", d |-> d]
Line(kind, usage, content, chars, other) ==
    [kind |-> kind, usage |-> usage, content |-> content, chars |-> chars, other |-> other]
CacheUsage(read, creation) ==
    Usage([k \in {"cache_read_input_tokens", "cache_creation_input_tokens"} |->
             IF k = "cache_read_input_tokens" THEN read ELSE creation])
IoUsage(input, output) ==
    Usage([k \in {"cache_read_input_tokens", "cache_creation_input_tokens",
                  "input_tokens", "output_tokens"} |->
             IF k = "input_tokens" THEN input
             ELSE IF k = "output_tokens" THEN output ELSE 0])
TranscriptLines ==
    {Line("blank", NoUsage, "absent", 0, 0),
     Line("invalid", NoUsage, "absent", 0, 0),
     Line("scalar", NoUsage, "absent", 0, 0),
     Line("object", CacheUsage(12000, 3000), "absent", 0, 0),
     Line("object", IoUsage(10, 5), "str", 40, 0),
     Line("object", IoUsage(0, 0), "absent", 0, 0),
     Line("object", NoUsage, "str", 40, 0),
     Line("object", [shape |-> "str", d |-> <<>>], "absent", 0, 0),
     Line("object", CacheUsage(7, 0), "list_bad", 8, 3),
     Line("object", Usage(<<>>), "absent", 0, 6)}

\* The transcript file: missing, unreadable, or a sequence of lines.
Transcript(kind, lines) == [kind |-> kind, lines |-> lines]
RECURSIVE SeqsUpTo(_, _)
SeqsUpTo(S, n) ==
    IF n = 0 THEN {<<>>}
    ELSE SeqsUpTo(S, n - 1) \cup {Append(s, x) : s \in SeqsUpTo(S, n - 1), x \in S}
Transcripts ==
    {Transcript("missing", <<>>), Transcript("unreadable", <<>>)}
    \cup {Transcript("file", l) : l \in SeqsUpTo(TranscriptLines, MaxLines)}

\* The files a call may find at the path stdin names.
TranscriptsAt(transcript_path) ==
    IF transcript_path = "" THEN {Transcript("missing", <<>>)} ELSE Transcripts

EstimateTokensFromChars(char_count) == Max(0, char_count \div CHARS_PER_TOKEN)

\* One pass of the loop body over a line.
ReadLine(acc, line) ==
    IF line.kind \in {"blank", "invalid"} THEN acc
    ELSE IF line.kind = "scalar"
    THEN [acc EXCEPT !.lines_processed = @ + 1]
    ELSE [total_chars |-> acc.total_chars
                            + (IF line.content = "absent" THEN 0 ELSE line.chars)
                            + (IF line.content = "list_bad" THEN 0 ELSE line.other),
          lines_processed |-> acc.lines_processed + 1,
          last_usage_data |-> IF line.usage.shape = "absent" THEN acc.last_usage_data
                              ELSE line.usage]
RECURSIVE ReadLines(_, _)
ReadLines(acc, lines) ==
    IF lines = <<>> THEN acc ELSE ReadLines(ReadLine(acc, Head(lines)), Tail(lines))

Scanned(lines) ==
    ReadLines([total_chars |-> 0, lines_processed |-> 0, last_usage_data |-> NoUsage],
              lines)

UsageGet(usage, key) == IF key \in DOMAIN usage.d THEN usage.d[key] ELSE 0
CacheTokens(usage) ==
    UsageGet(usage, "cache_read_input_tokens") + UsageGet(usage, "cache_creation_input_tokens")
ActualTokens(usage) ==
    IF CacheTokens(usage) = 0
    THEN UsageGet(usage, "input_tokens") + UsageGet(usage, "output_tokens")
    ELSE CacheTokens(usage)
UsageIsTruthy(usage) ==
    usage.shape = "str" \/ (usage.shape = "dict" /\ DOMAIN usage.d # {})

ParseNone == [py |-> "none", exc |-> "", used |-> 0, max |-> 0, percentage |-> Float(0),
              char_count |-> 0, lines_processed |-> 0, source |-> ""]
ParseDict(used, acc, source) ==
    [py |-> "dict", exc |-> "", used |-> used, max |-> DefaultLimit,
     percentage |-> CalculatePercentage(used, DefaultLimit),
     char_count |-> acc.total_chars, lines_processed |-> acc.lines_processed,
     source |-> source]
Summarise(acc) ==
    IF UsageIsTruthy(acc.last_usage_data) /\ acc.last_usage_data.shape = "str"
    THEN [ParseNone EXCEPT !.py = "raise", !.exc = "AttributeError"]
    ELSE IF UsageIsTruthy(acc.last_usage_data) /\ ActualTokens(acc.last_usage_data) > 0
    THEN ParseDict(ActualTokens(acc.last_usage_data), acc, "usage_data")
    ELSE ParseDict(EstimateTokensFromChars(acc.total_chars), acc, "character_estimation")
ParseTranscriptFile(transcript_path, transcript) ==
    IF transcript_path = "" \/ transcript.kind # "file" THEN ParseNone
    ELSE Summarise(Scanned(transcript.lines))

CallParseTranscriptFile ==
    /\ context_usage.op = "none"
    /\ \E p \in {"", "t.jsonl"}, t \in Transcripts :
          context_usage' = [op |-> "parse_transcript_file", transcript_path |-> p,
                            transcript |-> t, rv |-> ParseTranscriptFile(p, t)]
    /\ UNCHANGED <<restVars, milestone_eta>>

\* ------------------------------------------------ calculate_context_usage
ContextUsageData(used_tokens, max_tokens, percentage, char_count, exceeds_limit, should_display) ==
    [py |-> "data", exc |-> "", used_tokens |-> used_tokens, max_tokens |-> max_tokens,
     percentage |-> percentage, char_count |-> char_count,
     exceeds_limit |-> exceeds_limit, should_display |-> should_display]
Raises(e) ==
    [py |-> "raise", exc |-> e, used_tokens |-> 0, max_tokens |-> 0,
     percentage |-> Float(0), char_count |-> 0, exceeds_limit |-> FALSE,
     should_display |-> FALSE]
FromTranscript(context_data, max_tokens) ==
    ContextUsageData(context_data.used, max_tokens,
                     CalculatePercentage(context_data.used, max_tokens),
                     context_data.char_count, FALSE, TRUE)

\* The transcript found at the first of the common locations that exists.
Candidates ==
    {Transcript("missing", <<>>),
     Transcript("file", <<Line("object", CacheUsage(12000, 3000), "absent", 0, 0)>>)}

\* The loop over transcript_candidates, given what parsing the candidate gave.
TryCandidates(context_data, max_tokens, default_data) ==
    IF context_data.py = "raise" THEN Raises(context_data.exc)
    ELSE IF context_data.py = "dict" THEN FromTranscript(context_data, max_tokens)
    ELSE default_data
\* The body of `if stdin_data:`, given what parsing the named transcript gave.
FromStdin(stdin_data, context_data, candidate_data, max_tokens, default_data) ==
    IF stdin_data.json = "object" /\ stdin_data.context.given
    THEN ContextUsageData(stdin_data.context.used, stdin_data.context.max,
                          CalculatePercentage(stdin_data.context.used,
                                              stdin_data.context.max),
                          0, FALSE, TRUE)
    ELSE IF stdin_data.json = "object" /\ context_data.py = "raise"
    THEN Raises(context_data.exc)
    ELSE IF stdin_data.json = "object" /\ context_data.py = "dict"
    THEN FromTranscript(context_data, max_tokens)
    ELSE TryCandidates(candidate_data, max_tokens, default_data)
CalculateContextUsage(model_name, stdin_data, transcript, candidate) ==
    IF GetModelTokenLimit(model_name, stdin_data).exc # ""
    THEN Raises(GetModelTokenLimit(model_name, stdin_data).exc)
    ELSE FromStdin(stdin_data,
                   ParseTranscriptFile(stdin_data.transcript_path, transcript),
                   ParseTranscriptFile("transcript.jsonl", candidate),
                   GetModelTokenLimit(model_name, stdin_data).limit,
                   ContextUsageData(0, GetModelTokenLimit(model_name, stdin_data).limit,
                                    Float(0), 0, FALSE, TRUE))

\* calculate_context_usage_with_exceeds_flag
ExceedsFlag(stdin_data, max_tokens) ==
    IF max_tokens = LargeLimit /\ stdin_data.exceeds_1m_tokens # "absent"
    THEN stdin_data.exceeds_1m_tokens = "True"
    ELSE stdin_data.exceeds_200k_tokens = "True"
WithExceedsFlag(stdin_data, context_data, max_tokens, default_data) ==
    IF stdin_data.json \in {"empty", "invalid"} THEN default_data
    ELSE IF ExceedsFlag(stdin_data, max_tokens)
    THEN ContextUsageData(max_tokens, max_tokens, Float(100), 0, TRUE, TRUE)
    ELSE IF context_data.py = "raise" THEN default_data
    ELSE IF context_data.py = "dict" THEN FromTranscript(context_data, max_tokens)
    ELSE ContextUsageData(0, max_tokens, Float(0), 0, FALSE, FALSE)
CalculateContextUsageWithExceedsFlag(model_name, stdin_data, transcript) ==
    IF GetModelTokenLimit(model_name, stdin_data).exc # ""
    THEN Raises(GetModelTokenLimit(model_name, stdin_data).exc)
    ELSE WithExceedsFlag(stdin_data,
                         ParseTranscriptFile(stdin_data.transcript_path, transcript),
                         GetModelTokenLimit(model_name, stdin_data).limit,
                         ContextUsageData(0, GetModelTokenLimit(model_name, stdin_data).limit,
                                          Float(0), 0, FALSE, FALSE))

\* core/context_usage_calculator.py: no usage metadata, no 1M window
CoreGetModelTokenLimit(model_name) ==
    IF KnownModels(model_name) # {} /\ FirstKnownModel(model_name) <= 10
    THEN MODEL_LIMITS[FirstKnownModel(model_name)].limit
    ELSE DefaultLimit
CoreParseTranscriptFile(transcript_path, transcript) ==
    IF transcript_path = "" \/ transcript.kind # "file" THEN ParseNone
    ELSE ParseDict(EstimateTokensFromChars(Scanned(transcript.lines).total_chars),
                   Scanned(transcript.lines), "character_estimation")
CoreData(used_tokens, max_tokens, percentage, char_count) ==
    [py |-> "data", exc |-> "", used_tokens |-> used_tokens, max_tokens |-> max_tokens,
     percentage |-> percentage, char_count |-> char_count]
CoreFromTranscript(context_data, max_tokens) ==
    CoreData(context_data.used, max_tokens,
             CalculatePercentage(context_data.used, max_tokens), context_data.char_count)
\* The estimates the core variant makes when no transcript was parsed.
CoreEstimate(stdin_data, max_tokens) ==
    IF stdin_data.len > 100
    THEN CoreData(Max(5000, stdin_data.len \div 2), max_tokens,
                  FloatMin(Float(50),
                           Ratio(Max(5000, stdin_data.len \div 2) * 100, max_tokens)),
                  stdin_data.len)
    ELSE CoreData(max_tokens \div 4, max_tokens, Float(25), (max_tokens \div 4) * 4)
CoreFromStdin(stdin_data, context_data, candidate_data, max_tokens) ==
    IF stdin_data.json = "object" /\ stdin_data.context.given
    THEN CoreData(stdin_data.context.used, stdin_data.context.max,
                  CalculatePercentage(stdin_data.context.used, stdin_data.context.max), 0)
    ELSE IF stdin_data.json = "array" THEN
         [py |-> "raise", exc |-> "AttributeError", used_tokens |-> 0, max_tokens |-> 0,
          percentage |-> Float(0), char_count |-> 0]
    ELSE IF stdin_data.json = "object" /\ context_data.py = "dict"
    THEN CoreFromTranscript(context_data, max_tokens)
    ELSE IF candidate_data.py = "dict" THEN CoreFromTranscript(candidate_data, max_tokens)
    ELSE CoreEstimate(stdin_data, max_tokens)
CoreCalculateContextUsage(model_name, stdin_data, transcript, candidate) ==
    CoreFromStdin(stdin_data,
                  CoreParseTranscriptFile(stdin_data.transcript_path, transcript),
                  CoreParseTranscriptFile("transcript.jsonl", candidate),
                  CoreGetModelTokenLimit(model_name))

\* The model names the calculators are called with.
CalledModels == {<<"C", "l", "a", "u", "d", "e", " ", "O", "p", "u", "s">>,
                 <<"g", "p", "t", "-", "4">>}
Called(op, m, s, t, c, rv) ==
    [op |-> op, model_name |-> m, stdin_data |-> s, transcript |-> t,
     candidate |-> c, rv |-> rv]
CallCalculateContextUsage ==
    /\ context_usage.op = "none"
    /\ \E m \in CalledModels, s \in StdinInputs, c \in Candidates :
       \E t \in TranscriptsAt(s.transcript_path) :
          context_usage' = Called("calculate_context_usage", m, s, t, c,
                                  CalculateContextUsage(m, s, t, c))
    /\ UNCHANGED <<restVars, milestone_eta>>
CallCalculateContextUsageWithExceedsFlag ==
    /\ context_usage.op = "none"
    /\ \E m \in CalledModels, s \in StdinInputs :
       \E t \in TranscriptsAt(s.transcript_path) :
          context_usage' = Called("calculate_context_usage_with_exceeds_flag", m, s, t,
                                  Transcript("missing", <<>>),
                                  CalculateContextUsageWithExceedsFlag(m, s, t))
    /\ UNCHANGED <<restVars, milestone_eta>>
CallCoreCalculateContextUsage ==
    /\ context_usage.op = "none"
    /\ \E m \in CalledModels, s \in StdinInputs, c \in Candidates :
       \E t \in TranscriptsAt(s.transcript_path) :
          context_usage' = Called("core.calculate_context_usage", m, s, t, c,
                                  CoreCalculateContextUsage(m, s, t, c))
    /\ UNCHANGED <<restVars, milestone_eta>>

NextContext ==
    \/ CallCalculatePercentage
    \/ CallGetModelTokenLimit
    \/ CallParseTranscriptFile
    \/ CallCalculateContextUsage
    \/ CallCalculateContextUsageWithExceedsFlag
    \/ CallCoreCalculateContextUsage
\* The calculator is stateless; each run of the status line calls it once.
InitContext == InitWith({DiskMissing}) /\ ttl_ms = 1 /\ ~gh_installed
SpecContext == InitContext /\ [][NextContext]_vars

\* ------------------------------------------------ claims on the calculator
InRange(p) == p.d > 0 /\ p.n >= 0 /\ p.n <= 100 * p.d

\* C22: every ContextUsageData that calculate_context_usage or
\* calculate_context_usage_with_exceeds_flag returns, for any stdin JSON (the
\* legacy context {used, max} included) and any transcript, has
\* used_tokens >= 0, max_tokens > 0 and 0 <= percentage <= 100.
C22_ReturnedDataInRange ==
    (context_usage.op \in {"calculate_context_usage",
                           "calculate_context_usage_with_exceeds_flag"}
        /\ context_usage.rv.py = "data") =>
        /\ context_usage.rv.used_tokens >= 0
        /\ context_usage.rv.max_tokens > 0
        /\ InRange(context_usage.rv.percentage)

\* The records of a transcript that carry usage metadata.
UsageLines(lines) ==
    {i \in 1..Len(lines) : lines[i].kind = "object" /\ lines[i].usage.shape = "dict"}
LastUsageLine(lines) ==
    lines[CHOOSE i \in UsageLines(lines) : \A j \in UsageLines(lines) : j <= i]
Parsed1 ==
    /\ context_usage.op = "parse_transcript_file"
    /\ context_usage.rv.py = "dict"

\* C23: when at least one record of the transcript carries usage metadata, the
\* used tokens are cache_read_input_tokens + cache_creation_input_tokens of
\* the last such record in file order, whatever the earlier records hold.
C23_LastUsageRecordWins ==
    (Parsed1 /\ UsageLines(context_usage.transcript.lines) # {}) =>
        context_usage.rv.used
            = CacheTokens(LastUsageLine(context_usage.transcript.lines).usage)

\* C24: parse_transcript_file uses the character estimate, floor(total
\* characters / 4), if and only if no record of the transcript carries usage
\* metadata.
C24_EstimateIffNoUsage ==
    Parsed1 =>
        /\ (context_usage.rv.source = "character_estimation")
              <=> (UsageLines(context_usage.transcript.lines) = {})
        /\ context_usage.rv.source = "character_estimation" =>
              context_usage.rv.used = context_usage.rv.char_count \div CHARS_PER_TOKEN

\* A line that is a well-formed record: a JSON object whose fields have the
\* types the parser reads.
WellFormed(line) ==
    /\ line.kind = "object"
    /\ line.usage.shape \in {"absent", "dict"}
    /\ line.content \in {"absent", "str"}
RECURSIVE WellFormedOnly(_)
WellFormedOnly(lines) ==
    IF lines = <<>> THEN <<>>
    ELSE IF WellFormed(Head(lines)) THEN <<Head(lines)>> \o WellFormedOnly(Tail(lines))
    ELSE WellFormedOnly(Tail(lines))

\* C25: malformed lines are skipped without effect: parse_transcript_file
\* returns the used tokens and the character count it returns for the
\* transcript without its malformed lines, and never fails because of one.
C25_MalformedLinesHaveNoEffect ==
    (context_usage.op = "parse_transcript_file" /\ context_usage.transcript_path # ""
        /\ context_usage.transcript.kind = "file") =>
        /\ context_usage.rv.py = "dict"
        /\ context_usage.rv.used
              = Summarise(Scanned(WellFormedOnly(context_usage.transcript.lines))).used
        /\ context_usage.rv.char_count
              = Summarise(Scanned(WellFormedOnly(context_usage.transcript.lines))).char_count

\* A call that names a transcript which is missing or empty, with no legacy
\* context, no exceeds flag set and no transcript at the common locations.
NoTranscript ==
    /\ context_usage.op \in {"calculate_context_usage", "core.calculate_context_usage",
                             "calculate_context_usage_with_exceeds_flag"}
    /\ context_usage.stdin_data.json = "object"
    /\ context_usage.stdin_data.transcript_path # ""
    /\ ~context_usage.stdin_data.context.given
    /\ context_usage.stdin_data.exceeds_200k_tokens # "True"
    /\ context_usage.stdin_data.exceeds_1m_tokens # "True"
    /\ context_usage.candidate.kind = "missing"
    /\ context_usage.transcript \in {Transcript("missing", <<>>), Transcript("file", <<>>)}

\* C26: for an empty and for a missing transcript file, both calculator
\* variants return used tokens 0 and percentage 0 and raise nothing.
C26_NoTranscriptGivesZero ==
    NoTranscript =>
        /\ context_usage.rv.py = "data"
        /\ context_usage.rv.used_tokens = 0
        /\ context_usage.rv.percentage.n = 0

\* ------------------------------------------ get_milestone_eta_from_github
\* What one external command does: it succeeds with a stdout, exits non-zero,
\* exceeds its timeout, is not installed, or prints bytes that are not text.
Statuses == {"ok", "nonzero", "timeout", "notfound", "undecodable"}
Outcome(status, stdout) == [status |-> status, stdout |-> stdout]
\* run_command: the stripped stdout, None, or the exception subprocess.run
\* raises that run_command does not catch.
RunCommand(o) ==
    IF o.status = "ok" THEN [py |-> "str", exc |-> "", out |-> o.stdout]
    ELSE IF o.status = "undecodable"
    THEN [py |-> "raise", exc |-> "UnicodeDecodeError", out |-> o.stdout]
    ELSE [py |-> "none", exc |-> "", out |-> o.stdout]

\* stdout of `gh issue view --json milestone`: the title
MilestoneOutcomes ==
    {Outcome(s, "Sprint 1") : s \in Statuses} \cup {Outcome("ok", "")}
\* stdout of `gh api .../milestones`: nothing, text that is not JSON, null, or
\* an object; due_on is given as the seconds from now to the due date.
Details(json, d) == [json |-> json, d |-> d]
DueOn(shape, delta) == [shape |-> shape, delta |-> delta]
DetailsOutcomes ==
    {Outcome(s, Details("empty", <<>>)) : s \in {"ok", "timeout", "undecodable"}}
    \cup {Outcome("ok", Details(j, <<>>)) : j \in {"invalid", "null", "object"}}
    \cup {Outcome("ok", Details("object",
             [k \in {"due_on", "open_issues", "closed_issues"} |->
                IF k = "due_on" THEN due ELSE IF k = "open_issues" THEN 3 ELSE 2])) :
          due \in {DueOn("iso", 0 - 3600), DueOn("iso", 93600), DueOn("malformed", 0)}}
    \cup {Outcome("ok", Details("object", [k \in {"closed_issues"} |-> 2])),
          Outcome("ok", Details("object", [k \in {"due_on"} |-> DueOn("iso", 5400)]))}
\* stdout of `gh issue list ... -q '. | length'`
CountOutcomes == {Outcome("ok", "7"), Outcome("ok", "n/a"), Outcome("timeout", "")}
\* stdout of `gh issue view --json body`: the hours TIME_PATTERN finds in it
BodyOutcomes ==
    {Outcome("ok", <<>>), Outcome("ok", <<2, 3>>), Outcome("nonzero", <<>>),
     Outcome("undecodable", <<>>)}

Digits == {"7"}
IsDigit(s) == s \in Digits
PyInt(s) == IF s = "7" THEN 7 ELSE 0

FormatEtaDuration(seconds) ==
    IF seconds <= 0 THEN "0m"
    ELSE IF seconds \div 86400 > 0
    THEN IF (seconds % 86400) \div 3600 > 0
         THEN ToString(seconds \div 86400) \o "d "
                 \o ToString((seconds % 86400) \div 3600) \o "h"
         ELSE ToString(seconds \div 86400) \o "d"
    ELSE IF (seconds % 86400) \div 3600 > 0
    THEN IF (seconds % 3600) \div 60 > 0
         THEN ToString((seconds % 86400) \div 3600) \o "h "
                 \o ToString((seconds % 3600) \div 60) \o "m"
         ELSE ToString((seconds % 86400) \div 3600) \o "h"
    ELSE ToString(Max(1, (seconds % 3600) \div 60)) \o "m"

RECURSIVE Sum(_)
Sum(s) == IF s = <<>> THEN 0 ELSE Head(s) + Sum(Tail(s))
Eta(rec, exc) == [rec |-> rec, exc |-> exc]
DetailGet(d, key) == IF key \in DOMAIN d THEN d[key] ELSE 0

\* The ETA from the issue body, once name and counts are known.
EtaFromBody(name, completed, total, eta_string, body) ==
    IF eta_string # "0m" THEN Eta(<<name, completed, total, eta_string>>, "")
    ELSE IF RunCommand(body).py = "raise" THEN Eta(EMPTY, RunCommand(body).exc)
    ELSE IF RunCommand(body).py = "str" /\ Sum(body.stdout) * 60 > 0
    THEN Eta(<<name, completed, total, ToString(Sum(body.stdout) * 60) \o "m">>, "")
    ELSE Eta(<<name, completed, total, eta_string>>, "")
\* The counts from `gh issue list` when the milestone gave none.
IssueCounts(name, completed, total, eta_string, total_result, completed_result, body) ==
    IF total # 0 THEN EtaFromBody(name, completed, total, eta_string, body)
    ELSE IF RunCommand(total_result).py = "raise"
    THEN Eta(EMPTY, RunCommand(total_result).exc)
    ELSE IF RunCommand(completed_result).py = "raise"
    THEN Eta(EMPTY, RunCommand(completed_result).exc)
    ELSE EtaFromBody(name,
                     IF RunCommand(completed_result).py = "str"
                           /\ IsDigit(completed_result.stdout)
                     THEN PyInt(completed_result.stdout) ELSE completed,
                     IF RunCommand(total_result).py = "str" /\ IsDigit(total_result.stdout)
                     THEN PyInt(total_result.stdout) ELSE total,
                     eta_string, body)
\* The inner try over the milestone details.
DueEta(d) ==
    IF "due_on" \notin DOMAIN d THEN "0m"
    ELSE IF d["due_on"].delta < 0 THEN "Overdue"
    ELSE FormatEtaDuration(d["due_on"].delta)
MilestoneDetails(name, details, total_result, completed_result, body) ==
    IF RunCommand(details).py = "raise" THEN Eta(EMPTY, RunCommand(details).exc)
    ELSE IF RunCommand(details).py = "none" \/ details.stdout.json \in {"empty", "invalid"}
    THEN IssueCounts(name, 0, 0, "0m", total_result, completed_result, body)
    ELSE IF details.stdout.json = "null" THEN Eta(EMPTY, "AttributeError")
    ELSE IF "due_on" \in DOMAIN details.stdout.d
              /\ details.stdout.d["due_on"].shape = "malformed"
    THEN IssueCounts(name, 0, 0, "0m", total_result, completed_result, body)
    ELSE IssueCounts(name, DetailGet(details.stdout.d, "closed_issues"),
                     DetailGet(details.stdout.d, "open_issues")
                        + DetailGet(details.stdout.d, "closed_issues"),
                     DueEta(details.stdout.d),
                     total_result, completed_result, body)
\* The body of the outer try: what it returns, or the exception that leaves it.
MilestoneEta(milestone, details, total_result, completed_result, body) ==
    IF RunCommand(milestone).py = "raise" THEN Eta(EMPTY, RunCommand(milestone).exc)
    ELSE IF RunCommand(milestone).py = "str" /\ milestone.stdout # ""
    THEN MilestoneDetails(milestone.stdout, details, total_result, completed_result, body)
    ELSE EtaFromBody("", 0, 0, "0m", body)

GetMilestoneEtaUnguarded(milestone, details, total_result, completed_result, body) ==
    MilestoneEta(milestone, details, total_result, completed_result, body)
GetMilestoneEtaFromGithub(milestone, details, total_result, completed_result, body) ==
    IF MilestoneEta(milestone, details, total_result, completed_result, body).exc # ""
    THEN Eta(EMPTY, "")
    ELSE MilestoneEta(milestone, details, total_result, completed_result, body)

CallGetMilestoneEtaFromGithub ==
    /\ milestone_eta.op = "none"
    /\ \E m \in MilestoneOutcomes, d \in DetailsOutcomes, t \in CountOutcomes,
          c \in CountOutcomes, b \in BodyOutcomes :
          milestone_eta' = [op |-> "get_milestone_eta_from_github", milestone |-> m,
                            details |-> d, total_result |-> t, completed_result |-> c,
                            body |-> b,
                            rv |-> GetMilestoneEtaFromGithub(m, d, t, c, b)]
    /\ UNCHANGED <<restVars, context_usage>>

NextRemote == CallGetMilestoneEtaFromGithub
SpecRemote == InitContext /\ [][NextRemote]_vars

\* The milestone details are a JSON object whose fields, where present, are of
\* the expected type, and no later command prints undecodable bytes.
DetailsReadable ==
    /\ milestone_eta.milestone.status = "ok" /\ milestone_eta.milestone.stdout # ""
    /\ milestone_eta.details.status = "ok"
    /\ milestone_eta.details.stdout.json = "object"
    /\ ("due_on" \in DOMAIN milestone_eta.details.stdout.d =>
           milestone_eta.details.stdout.d["due_on"].shape = "iso")
    /\ milestone_eta.body.status # "undecodable"

FetchFairness ==
    \A w \in Workers :
        /\ WF_vars(FetchBegin(w))
        /\ WF_vars(FetchRemote(w))
        /\ WF_vars(FetchCacheSet(w))
\* Callers of fetch_github_data_background, and the threads they start.
MaxFetches == 2
NextFetch ==
    \/ \E c \in Callers, i \in Issues :
          calls < MaxFetches /\ FetchGithubDataBackground(c, i)
    \/ \E c \in Callers : CheckFetchThread(c)
    \/ \E c \in Callers : StartFetchThread(c)
    \/ \E w \in Workers : FetchBegin(w)
    \/ \E w \in Workers : FetchRemote(w)
    \/ \E w \in Workers : FetchCacheSet(w)
    \/ Tick
InitFetch == InitWith({DiskMissing}) /\ ttl_ms = 1
SpecFetch == InitFetch /\ [][NextFetch]_vars /\ FetchFairness

\* C29: every background fetch thread that is started eventually terminates,
\* also when a gh command hangs until its timeout, and the in-flight marker
\* _github_fetch_thread is then clear for a later miss; no fetch stays in
\* flight forever.
C29_FetchThreadTerminates ==
    /\ \A w \in Workers : (worker[w].pc # "dead") ~> (worker[w].pc = "dead")
    /\ ThreadAlive(github_fetch_thread) ~> ~ThreadAlive(github_fetch_thread)
C29_Witness ==
    /\ github_fetch_thread # NoThread
    /\ ~ThreadAlive(github_fetch_thread)
    /\ "worker" \in remoteLog
    /\ \E c \in Callers : caller[c].pc = "bg_start"

\* C30: no flush of the cache to disk runs on the calling thread during
\* generate_status_line: a builder call leaves the cache file as it was, its
\* cache writes staying in memory.
C30_NoFlushOnHotPath ==
    [][(calls' = calls + 1
          /\ resolved'.op \in {"statusline", "formatting_context", "core_statusline"})
        => disk' = disk]_vars

\* ------------------------------------- GitHubCache, concurrent callers
\* set_issue_data and get_issue_data as the steps between which another
\* thread or process may run: taking self._lock, _consistent_read, and the
\* rest of the method with its _atomic_write (one rename). g1 and g2 are
\* threads sharing one GitHubCache; g3 uses another GitHubCache on the same
\* directory (another process), with a lock of its own.
MaxMinutes == 2
MaxGhCalls == 3
GhIssues == {"42", "43"}
GhTtls == {0, 1}
GhInstance == [g \in GhThreads |-> IF g = "g3" THEN "B" ELSE "A"]

\* `with self._lock`: free when no other thread of the instance is inside.
LockFree(g) ==
    \A h \in GhThreads \ {g} :
        GhInstance[h] = GhInstance[g] => gh_thread[h].pc = "idle"

\* The number of the latest set_issue_data of issue i that returned True.
LatestSet(i) ==
    IF CacheKey(i) \in DOMAIN gh_log.sets THEN gh_log.sets[CacheKey(i)].n ELSE 0

GhEnter(g, op, i, rec, ttl) ==
    /\ gh_thread[g].pc = "idle"
    /\ gh_log.calls < MaxGhCalls
    /\ LockFree(g)
    /\ gh_thread' = [gh_thread EXCEPT ![g] =
          [IdleGhThread EXCEPT !.pc = "read", !.op = op, !.issue = i,
                               !.rec = rec, !.ttl = ttl, !.seen = LatestSet(i)]]
    /\ gh_log' = [gh_log EXCEPT !.calls = @ + 1]
    /\ UNCHANGED <<now, envVars, calcVars, long_term, resVars, cacheVars, loaderVars, apiVars>>

SetIssueDataCall(g, i, rec, ttl) == GhEnter(g, "set", i, rec, ttl)
GetIssueDataCall(g, i) == GhEnter(g, "get", i, EMPTY, 0)

\* `data = self._consistent_read()`; set_issue_data then takes time.time().
GhConsistentRead(g) ==
    /\ gh_thread[g].pc = "read"
    /\ gh_thread' = [gh_thread EXCEPT ![g].pc = "write",
                                      ![g].data = ConsistentRead(gh_cache),
                                      ![g].ts = now \div MillisPerSecond]
    /\ UNCHANGED <<now, envVars, calcVars, gh_log, long_term, resVars, cacheVars, loaderVars, apiVars>>

\* The entry set_issue_data builds.
IssueEntry(rec, ts, ttl) == [data |-> PyList(rec), timestamp |-> ts, ttl_minutes |-> ttl]

\* set_issue_data from `data[f'github_issue_{issue_num}'] = cache_entry` on:
\* _atomic_write replaces the file by the snapshot with the entry, or fails
\* and leaves the file as it is; its result is returned.
SetIssueDataWrite(g, ok) ==
    LET th == gh_thread[g]
        key == CacheKey(th.issue)
    IN /\ th.pc = "write" /\ th.op = "set"
       /\ gh_cache' = IF ok
                      THEN DiskFile("object",
                              DictSet(th.data, key, IssueEntry(th.rec, th.ts, th.ttl)))
                      ELSE gh_cache
       /\ gh_log' = IF ok
                    THEN [gh_log EXCEPT !.writes = @ + 1,
                            !.sets = DictSet(@, key,
                               [rec |-> th.rec, ts |-> th.ts, ttl |-> th.ttl,
                                n |-> gh_log.writes + 1])]
                    ELSE gh_log
       /\ gh_thread' = [gh_thread EXCEPT ![g] = IdleGhThread]
       /\ UNCHANGED <<now, envVars, calcVars, long_term, resolved, cacheVars, loaderVars, apiVars>>

\* get_issue_data from `cache_key = ...` on.
GetIssueDataReturn(g, ok) ==
    LET th == gh_thread[g]
        r == ReadIssueData(th.data, gh_cache, th.issue, now, ok)
    IN /\ th.pc = "write" /\ th.op = "get"
       /\ gh_cache' = r.file
       /\ gh_log' = [gh_log EXCEPT
             !.get = [issue |-> th.issue, rv |-> r.rv, time |-> now \div MillisPerSecond,
                      seen |-> th.seen, latest |-> LatestSet(th.issue)],
             !.deleted = @ \/ r.file # gh_cache]
       /\ gh_thread' = [gh_thread EXCEPT ![g] = IdleGhThread]
       /\ UNCHANGED <<now, envVars, calcVars, long_term, resolved, cacheVars, loaderVars, apiVars>>

\* A minute passes.
TickMinute ==
    /\ now < MaxMinutes * SecondsPerMinute * MillisPerSecond
    /\ now' = now + SecondsPerMinute * MillisPerSecond
    /\ UNCHANGED <<envVars, calcVars, ghVars, long_term, resVars, cacheVars, loaderVars, apiVars>>

NextGithubCache ==
    \/ \E g \in GhThreads, i \in GhIssues, rec \in RemoteRecords, ttl \in GhTtls :
          SetIssueDataCall(g, i, rec, ttl)
    \/ \E g \in GhThreads, i \in GhIssues : GetIssueDataCall(g, i)
    \/ \E g \in GhThreads : GhConsistentRead(g)
    \/ \E g \in GhThreads, ok \in BOOLEAN : SetIssueDataWrite(g, ok)
    \/ \E g \in GhThreads, ok \in BOOLEAN : GetIssueDataReturn(g, ok)
    \/ TickMinute

InitGithubCache ==
    /\ InitCommon({DiskMissing}) /\ ttl_ms = 1 /\ ~gh_installed
    /\ local_files = NoLocalFiles
    /\ branch = "main"
    /\ resolved = NoResolved
    /\ gh_cache \in {DiskMissing,
                     DiskFile("object", [k \in {"github_issue_42"} |->
                                            GhEntry(LongAgo, CachedRecord)])}

SpecGithubCache == InitGithubCache /\ [][NextGithubCache]_vars

\* The latest successful set_issue_data of the issue read: its record, the
\* time it took and its ttl.
SetBefore(i) == gh_log.sets[CacheKey(i)]
\* The get was called after that set had returned, nothing wrote the key in
\* between, and the entry's TTL had not elapsed when the get returned.
ReadBackInTime ==
    /\ gh_log.get.issue # ""
    /\ gh_log.get.seen # 0
    /\ gh_log.get.seen = gh_log.get.latest
    /\ CacheKey(gh_log.get.issue) \in DOMAIN gh_log.sets
    /\ SetBefore(gh_log.get.issue).n = gh_log.get.seen
    /\ gh_log.get.time - SetBefore(gh_log.get.issue).ts
          <= SetBefore(gh_log.get.issue).ttl * SecondsPerMinute

\* C31: after set_issue_data(i, name, completed, total, remaining, ttl) has
\* returned True, a get_issue_data(i) made before the entry's TTL elapses and
\* with no write to key i in between returns (name, completed, total,
\* remaining), from the same or from another GitHubCache on the directory.
C31_SetGetRoundTrip ==
    ReadBackInTime => gh_log.get.rv = PyTuple(SetBefore(gh_log.get.issue).rec)

\* No call is in progress.
GhQuiet == \A g \in GhThreads : gh_thread[g].pc = "idle"

\* C32: once the set_issue_data calls that returned True have all returned,
\* the cache file holds the entry of each of them (no get_issue_data having
\* removed an entry): no interleaving loses an update.
C32_NoLostUpdate ==
    (GhQuiet /\ ~gh_log.deleted) =>
        \A k \in DOMAIN gh_log.sets :
            /\ gh_cache.kind = "object"
            /\ k \in DOMAIN gh_cache.entries
            /\ gh_cache.entries[k] =
                  IssueEntry(gh_log.sets[k].rec, gh_log.sets[k].ts, gh_log.sets[k].ttl)

\* ------------------------------- StatusLineCache, the extended-TTL calls
LongTermMinutes == {0, 1}
MillisPerMinute == SecondsPerMinute * MillisPerSecond

\* set_long_term: the entry is stored like any other; ttl_minutes is not used.
SetLongTerm(cs, key, value, ttl_minutes, t) ==
    [cs EXCEPT !.mem = DictSet(cs.mem, key, CacheEntry(t, value))]

\* get_long_term once the lazy load is done.
GetLongTermLoaded(c1, key, ttl_minutes, t) ==
    IF key \in DOMAIN c1.mem
    THEN IF ~IsExpired(c1.mem[key], ttl_minutes * MillisPerMinute, t)
         THEN [cs |-> c1, rv |-> c1.mem[key].data]
         ELSE [cs |-> [c1 EXCEPT !.mem = DictDel(c1.mem, key)], rv |-> PyNone]
    ELSE [cs |-> c1, rv |-> PyNone]

\* get_long_term: [cs |-> new state, rv |-> value, PyNone or the exception
\* that escapes the lazy load]
GetLongTerm(cs, key, ttl_minutes, ttl, t) ==
    IF cs.loaded THEN GetLongTermLoaded(cs, key, ttl_minutes, t)
    ELSE IF LoadRaises(cs, ttl, t) # ""
    THEN [cs |-> LoadFromDisk(cs, ttl, t), rv |-> PyRaise(LoadRaises(cs, ttl, t))]
    ELSE GetLongTermLoaded([LoadFromDisk(cs, ttl, t) EXCEPT !.loaded = TRUE],
                           key, ttl_minutes, t)

CacheSetLongTerm(k, v, m) ==
    /\ SetCS(SetLongTerm(CS, k, v, m, now))
    /\ long_term' = [NoLongTerm EXCEPT !.key = k, !.entry = CacheEntry(now, v)]
    /\ lastSet' = DictDel(lastSet, k)
    /\ got' = NoGet
    /\ UNCHANGED <<now, envVars, calcVars, ghVars, resVars, loaderVars, cthread, reader, setTs, flush>>

CacheGetLongTerm(k, m) ==
    /\ LET g == GetLongTerm(CS, k, m, ttl_ms, now)
       IN /\ SetCS(g.cs)
          /\ long_term' = [long_term EXCEPT !.gkey = k, !.minutes = m,
                                            !.rv = g.rv, !.time = now,
                                            !.first = (long_term.gkey = "")]
    /\ UNCHANGED <<now, envVars, calcVars, ghVars, resVars, loaderVars, apiVars>>

NextLongTerm ==
    \/ \E k \in Keys, v \in CacheValues, m \in LongTermMinutes : CacheSetLongTerm(k, v, m)
    \/ \E k \in Keys, m \in LongTermMinutes : CacheGetLongTerm(k, m)
    \/ \E k \in Keys : CacheGet(k)
    \/ CacheSaveToDisk
    \/ CacheClearExpired
    \/ Tick

InitLongTerm == InitWith({DiskMissing}) /\ gh_installed = FALSE

SpecLongTerm == InitLongTerm /\ [][NextLongTerm]_vars

\* C33: a value stored with set_long_term(k, v) is returned by the next
\* get_long_term(k, m) at every time within m minutes of the store, whatever
\* get, clear_expired or _save_to_disk calls ran in between (as the same
\* JSON value), and is absent once m minutes have passed.
C33_LongTermValueLastsTtl ==
    (long_term.gkey # "" /\ long_term.gkey = long_term.key /\ long_term.first) =>
        IF long_term.time - long_term.entry.timestamp
              <= long_term.minutes * MillisPerMinute
        THEN SameJson(long_term.rv, long_term.entry.data)
        ELSE long_term.rv = PyNone

\* ---------------------------------------- the data loader, two issue keys
\* Calls for two issues: a fetch thread can be running for one of them when
\* a call for the other misses the cache.
FetchIssues == {"42", "43"}

NextKeys ==
    \/ \E c \in Callers, i \in FetchIssues : GetMilestoneNoWait(c, i)
    \/ \E c \in Callers, i \in FetchIssues : FetchGithubDataBackground(c, i)
    \/ \E c \in Callers : CheckFetchThread(c)
    \/ \E c \in Callers : StartFetchThread(c)
    \/ \E w \in Workers : FetchBegin(w)
    \/ \E w \in Workers : FetchRemote(w)
    \/ \E w \in Workers : FetchCacheSet(w)
    \/ Tick

SpecKeys == InitFetch /\ [][NextKeys]_vars

\* A fetch thread for issue i is running.
FetchInFlight(i) == \E w \in Workers : worker[w].pc # "dead" /\ worker[w].issue = i

\* The call of thread c returns from fetch_github_data_background without
\* having started a thread.
DeclinesToFetch(c) == caller[c].pc = "bg_check" /\ caller'[c].pc = "idle"

\* C34: a call that misses the cache for key B starts a background fetch for
\* B unless a fetch for B itself is in flight: a fetch outstanding for another
\* key A never suppresses it.
C34_InFlightTrackingIsPerKey ==
    [][\A c \in Callers : DeclinesToFetch(c) => FetchInFlight(caller[c].issue)]_vars

\* The get that returned last was the first of its instance (it ran the lazy
\* load), for a key that set had stored before, within the TTL of that set.
FirstGetAfterSet ==
    /\ got.first
    /\ got.key \in DOMAIN lastSet
    /\ got.time <= lastSet[got.key].timestamp + ttl_ms

\* C35: the lazy disk load of the first get never replaces or discards an
\* entry that set wrote earlier in the same instance: the first get(k) after
\* set(k, v), within the TTL, returns v (as a JSON value) whatever the cache
\* file holds.
C35_LazyLoadKeepsSetEntries ==
    FirstGetAfterSet => SameJson(got.rv, lastSet[got.key].data)

\* An entry of the cache file that a load at time t would accept.
LiveOnDisk(k, t) ==
    /\ disk.kind = "object"
    /\ k \in DOMAIN disk.entries
    /\ HasEntryShape(disk.entries[k])
    /\ ~BadTimestamp(disk.entries[k])
    /\ ~IsExpired(disk.entries[k], ttl_ms, t)

\* C36: a flush (set with save_immediately=True, or _save_to_disk) by an
\* instance that has not loaded the disk snapshot leaves every unexpired
\* entry of the file present in it: it only adds or updates entries and
\* drops expired ones.
C36_FlushKeepsOtherEntries ==
    [][(~disk_loaded /\ disk' # disk) =>
          \A k \in Keys : LiveOnDisk(k, now) =>
              disk'.kind = "object" /\ k \in DOMAIN disk'.entries]_vars

\* C37: every record get_milestone_eta_from_github returns has
\* completed <= total, whichever of the external commands (the milestone API
\* query, the two issue-list counts) succeed or fail.
C37_CompletedAtMostTotal ==
    milestone_eta.op = "get_milestone_eta_from_github" =>
        milestone_eta.rv.rec[2] <= milestone_eta.rv.rec[3]

\* get_milestone_from_local_files has just run as the first call of the
\* process, on a cache that holds none of the files (and whose own file, if
\* any, is a JSON object).
ColdLocalRead ==
    resolved.op = "local_files" /\ calls = 1 /\ disk.kind # "nonobject"

\* C38: for every content of tasks.json, session.json and milestones.json,
\* StatusLineDataLoader.get_milestone_from_local_files (with a cold cache)
\* returns the four-field record that GitHubCache._get_local_files_data
\* returns.
C38_LocalReadersAgree ==
    ColdLocalRead =>
        /\ resolved.exc = ""
        /\ resolved.rec = GetLocalFilesData(gh_cache, local_files).rec

====
